---- MODULE Spec2Model ----
(***************************************************************************)
(* Model of kansean/mtproto-manager: the traffic ledger, the throttle      *)
(* controller and the effective-limit resolution (app/services/traffic.py, *)
(* app/config.py), with the Docker runtime as the environment.             *)
(*                                                                         *)
(* Text is modelled as sequences of one-character strings, so that the     *)
(* name <-> port conversions (rsplit, isdigit, str, int, f-strings) are    *)
(* computed and not assumed.                                               *)
(*                                                                         *)
(* Unit of the byte counters: TLC's integers end at 2^31 - 1, which is     *)
(* less than 2 GiB in bytes, so every byte count of the model (interface   *)
(* counters, ledger totals, limit_bytes) is counted in MiB (2^20 bytes).   *)
(* The code only adds, subtracts and compares byte counts, so the unit     *)
(* changes none of its decisions for counts that are whole MiB.            *)
(***************************************************************************)
EXTENDS Integers, Sequences, FiniteSets, TLC

VARIABLES
    cfg,         \* content of config.json as load_config returns it
    containers,  \* Docker runtime: name -> [status, rx, tx, tc]
    traffic,     \* content of traffic.json (the persisted ledger)
    throttled,   \* _throttled_containers
    mon_pc,      \* position of the monitor thread inside _monitor_loop
    obs,         \* what the last step did (its name, inputs and result)
    n_traffic,   \* traffic events generated so far
    n_starts,    \* container stops so far
    clock,       \* datetime.now(), advanced by every reset
    fn,          \* input and result of the last pure-function call
    issued,      \* the ports user_add has handed out so far
    mon_data,    \* the monitor thread's local copy of the ledger
    disk,        \* the files of DATA_DIR as a reader finds them
    saver,       \* position and locals of a save_traffic_data / save_config call
    nginx,       \* the edge router: its two config files and what it has loaded
    starter,     \* _monitor_thread, the threads started, and the callers of start_traffic_monitor
    login        \* _login_attempts, time.time(), and the answers given so far

vars == <<cfg, containers, traffic, throttled, mon_pc, obs, n_traffic, n_starts, clock, fn,
          issued, mon_data, disk, saver, nginx, starter, login>>

-----------------------------------------------------------------------------
(* Bounds of the model *)

MaxTraffic == 1
MaxLedgerTraffic == 2
MaxStops == 1
MaxResets == 1

(* A traffic event moves one GiB through a container's interface, half of
   it received and half of it sent (in MiB); where the ledger alone is
   examined, half a GiB or one GiB in one direction. *)
Loads == {[rx |-> 512, tx |-> 512]}

LedgerLoads ==
    {[rx |-> a, tx |-> 0] : a \in {512, 2 * 512}} \cup
    {[rx |-> 0, tx |-> a] : a \in {512, 2 * 512}}

-----------------------------------------------------------------------------
(* Python text *)

DigitSeq == <<"0", "1", "2", "3", "4", "5", "6", "7", "8", "9">>

DigitChars == {DigitSeq[i] : i \in 1..10}

DigitVal(c) == (CHOOSE i \in 1..10 : DigitSeq[i] = c) - 1

(* str(n) for n >= 0: the decimal digits, no leading zeros. *)
RECURSIVE str(_)
str(n) == IF n < 10 THEN <<DigitSeq[n + 1]>>
          ELSE str(n \div 10) \o <<DigitSeq[(n % 10) + 1]>>

(* int(s) for a non-empty digit string s. *)
RECURSIVE int(_)
int(s) == IF Len(s) = 1 THEN DigitVal(s[1])
          ELSE 10 * int(SubSeq(s, 1, Len(s) - 1)) + DigitVal(s[Len(s)])

(* s.isdigit(): non-empty and digits only. *)
isdigit(s) == Len(s) > 0 /\ \A i \in 1..Len(s) : s[i] \in DigitChars

(* s.rsplit(sep, 1) for a one-character separator. *)
rsplit1(s, sep) ==
    LET hits == {i \in 1..Len(s) : s[i] = sep}
    IN  IF hits = {} THEN <<s>>
        ELSE LET i == CHOOSE k \in hits : \A j \in hits : j <= k
             IN  <<SubSeq(s, 1, i - 1), SubSeq(s, i + 1, Len(s))>>

(* d.get(k, default) on a dict modelled as a function. *)
Get(d, k, default) == IF k \in DOMAIN d THEN d[k] ELSE default

(* dict d with d[k] = v. *)
Put(d, k, v) == [x \in DOMAIN d \cup {k} |-> IF x = k THEN v ELSE d[x]]

RECURSIVE SumOver(_, _)
SumOver(f, S) ==
    IF S = {} THEN 0
    ELSE LET x == CHOOSE y \in S : TRUE IN f[x] + SumOver(f, S \ {x})

None == <<"None">>

-----------------------------------------------------------------------------
(* app/config.py *)

proxy_port == 2443

(* 1024 ** 3 bytes, in MiB. *)
GB_BYTES == (1024 * 1024 * 1024) \div (1024 * 1024)

(* Variant: one test, on the limit, decides both fields. *)
get_user_effective_limits_coupled(user, c) ==
    LET tl == Get(user, "traffic_limit_gb", 0)
        ts == Get(user, "throttle_speed_mbps", 0)
    IN  IF tl = 0 \/ tl <= 0
        THEN <<Get(c, "traffic_limit_gb", 0), Get(c, "throttle_speed_mbps", 1)>>
        ELSE <<tl, ts>>

(* Lines 117-125. *)
get_user_effective_limits(user, c) ==
    LET tl  == Get(user, "traffic_limit_gb", 0)
        tl2 == IF tl = 0 \/ tl <= 0 THEN Get(c, "traffic_limit_gb", 0) ELSE tl
        ts  == Get(user, "throttle_speed_mbps", 0)
        ts2 == IF ts = 0 \/ ts <= 0 THEN Get(c, "throttle_speed_mbps", 1) ELSE ts
    IN  <<tl2, ts2>>

-----------------------------------------------------------------------------
(* Container names *)

MTG_PROXY == <<"m", "t", "g", "-", "p", "r", "o", "x", "y">>

(* f"mtg-proxy-{port_str}" *)
container_name_of(port_str) == MTG_PROXY \o <<"-">> \o port_str

_port_from_container_name(name) ==
    LET parts == rsplit1(name, "-")
    IN  IF Len(parts) = 2 /\ isdigit(parts[2]) THEN parts[2] ELSE None

(* The fleets of the runtime: one container per user port, or a per-port
   container beside the legacy single container named by
   proxy_container_name. *)
PortFleet ==
    {container_name_of(str(proxy_port)), container_name_of(str(proxy_port + 1))}

MixedFleet ==
    {container_name_of(str(proxy_port)), MTG_PROXY}

HasPrefix(name, p) == Len(name) >= Len(p) /\ SubSeq(name, 1, Len(p)) = p

get_all_proxy_containers ==
    {n \in DOMAIN containers : HasPrefix(n, MTG_PROXY)}

_get_containers ==
    {n \in get_all_proxy_containers : containers[n].status = "running"}

-----------------------------------------------------------------------------
(* app/services/traffic.py: the ledger *)

EmptyDict == [x \in {} |-> 0]

_default_traffic ==
    [rx_bytes |-> 0, tx_bytes |-> 0, per_user |-> EmptyDict,
     last_per_container |-> EmptyDict, last_reset |-> 0]

(* container.stats(stream=False) under an outcome chosen by the runtime:
   "eth0" and "iface" answer with the interface counters (under the name
   eth0, or under another name only), "empty" answers with no network,
   "raise" fails. *)
StatOutcomes == {"eth0", "iface", "empty", "raise"}

stats(name, outcome) ==
    LET c == [rx_bytes |-> containers[name].rx, tx_bytes |-> containers[name].tx]
    IN  CASE outcome = "eth0"  -> [networks |-> [i \in {"eth0"} |-> c]]
          [] outcome = "iface" -> [networks |-> [i \in {"eth1"} |-> c]]
          [] OTHER             -> [networks |-> EmptyDict]

(* Lines 99-106: the interface the counters are taken from. *)
pick_interface(st) ==
    LET networks == Get(st, "networks", EmptyDict)
        eth0 == Get(networks, "eth0", EmptyDict)
    IN  IF eth0 # EmptyDict THEN eth0
        ELSE IF DOMAIN networks # {} THEN networks[CHOOSE i \in DOMAIN networks : TRUE]
        ELSE EmptyDict

(* Variant: a counter that went backwards counts for nothing. *)
delta_restart_as_zero(current, last) == IF current >= last THEN current - last ELSE 0

(* Variant: the plain difference. *)
delta_signed(current, last) == current - last

(* Lines 116-118. *)
delta(current, last) == IF current >= last THEN current - last ELSE current

(* Variant: a name that carries a port feeds that port's totals only. *)
add_deltas_port_only(data, cname, delta_rx, delta_tx) ==
    LET port_str == _port_from_container_name(cname)
        pu == Get(data.per_user, port_str, [rx_bytes |-> 0, tx_bytes |-> 0])
    IN  IF port_str # None
        THEN [data EXCEPT !.per_user =
                              Put(@, port_str,
                                  [rx_bytes |-> pu.rx_bytes + delta_rx,
                                   tx_bytes |-> pu.tx_bytes + delta_tx])]
        ELSE [data EXCEPT !.rx_bytes = @ + delta_rx,
                          !.tx_bytes = @ + delta_tx]

(* Lines 120-128: the deltas added to the aggregate totals and, for a
   name that carries a port, to that port's totals. *)
add_deltas(data, cname, delta_rx, delta_tx) ==
    LET port_str == _port_from_container_name(cname)
        pu == Get(data.per_user, port_str, [rx_bytes |-> 0, tx_bytes |-> 0])
        per_user == IF port_str # None
                    THEN Put(data.per_user, port_str,
                             [rx_bytes |-> pu.rx_bytes + delta_rx,
                              tx_bytes |-> pu.tx_bytes + delta_tx])
                    ELSE data.per_user
    IN  [data EXCEPT !.rx_bytes = @ + delta_rx,
                     !.tx_bytes = @ + delta_tx,
                     !.per_user = per_user]

(* Variant: the sample is kept only when a counter grew. *)
set_last_sample_if_grew(data, cname, current_rx, current_tx) ==
    LET prev == Get(data.last_per_container, cname, [rx |-> 0, tx |-> 0])
    IN  IF current_rx > prev.rx \/ current_tx > prev.tx
        THEN [data EXCEPT !.last_per_container =
                              Put(@, cname, [rx |-> current_rx, tx |-> current_tx])]
        ELSE data

(* Line 130: the raw counters kept for the next cycle. *)
set_last_sample(data, cname, current_rx, current_tx) ==
    [data EXCEPT !.last_per_container =
                     Put(@, cname, [rx |-> current_rx, tx |-> current_tx])]

(* Lines 108-130: one container's sample folded into the ledger. *)
account(data, cname, eth0) ==
    LET current_rx == Get(eth0, "rx_bytes", 0)
        current_tx == Get(eth0, "tx_bytes", 0)
        prev == Get(data.last_per_container, cname, [rx |-> 0, tx |-> 0])
        delta_rx == delta(current_rx, Get(prev, "rx", 0))
        delta_tx == delta(current_tx, Get(prev, "tx", 0))
    IN  set_last_sample(add_deltas(data, cname, delta_rx, delta_tx),
                        cname, current_rx, current_tx)

(* Variant: a container that could not be read loses its last sample. *)
skip_forgets_sample(data, cname) ==
    [data EXCEPT !.last_per_container =
                     [n \in DOMAIN @ \ {cname} |-> @[n]]]

(* Lines 94-97, 105-106: continue; the ledger is not touched. *)
skip(data, cname) == data

(* Lines 92-130: the loop over the running containers. *)
RECURSIVE collect_loop(_, _, _)
collect_loop(data, todo, outcome) ==
    IF todo = {} THEN data
    ELSE LET cname == CHOOSE n \in todo : TRUE
             eth0 == IF outcome[cname] = "raise" THEN EmptyDict
                     ELSE pick_interface(stats(cname, outcome[cname]))
             next == IF eth0 = EmptyDict THEN skip(data, cname)
                     ELSE account(data, cname, eth0)
         IN  collect_loop(next, todo \ {cname}, outcome)

(* The counters read in a cycle: name -> [rx, tx], for the containers read. *)
samples_of(running, outcome) ==
    LET read == {n \in running : outcome[n] \in {"eth0", "iface"}}
    IN  [n \in read |-> [rx |-> containers[n].rx, tx |-> containers[n].tx]]

_collect_stats_snapshot ==
    /\ mon_pc = "collect"
    /\ LET running == _get_containers
       IN  IF running = {}
           THEN /\ traffic' = traffic
                /\ obs' = [op |-> "collect", saved |-> FALSE, pre |-> traffic,
                           samples |-> EmptyDict]
           ELSE \E outcome \in [running -> StatOutcomes] :
                /\ traffic' = collect_loop(traffic, running, outcome)
                /\ obs' = [op |-> "collect", saved |-> TRUE, pre |-> traffic,
                           samples |-> samples_of(running, outcome)]
    /\ mon_pc' = "enforce"
    /\ UNCHANGED <<cfg, containers, throttled, n_traffic, n_starts, clock, fn,
                   issued, mon_data, disk, saver, nginx, starter, login>>

-----------------------------------------------------------------------------
(* app/services/traffic.py: the throttle controller *)

NoRule == [rate |-> 0, burst |-> 0]

Max(a, b) == IF a >= b THEN a ELSE b

(* Line 192: int(speed_mbps * 1000000 / 8 * 0.01), floor 1600. *)
burst_bytes(speed_mbps) == Max(((speed_mbps * 1000000) \div 8) \div 100, 1600)

(* What the runtime answers to the two tc commands run in a container:
   del = the deletion ran, add = the installation ran. *)
ExecOutcomes == [del : BOOLEAN, add : BOOLEAN]

(* "tc qdisc del dev eth0 root": the rule is gone when the command ran. *)
tc_del(rule, ex) == IF ex.del THEN NoRule ELSE rule

(* "tc qdisc add dev eth0 root tbf ...": exit code 0 when the command ran
   on an interface that carries no root rule. *)
tc_add_ok(rule, ex) == ex.add /\ rule = NoRule

(* Variant: the name joins the set whatever the exit code. *)
_apply_throttle_marks_always(st, name, speed_mbps, ex) ==
    LET c == st[1]
        rule1 == tc_del(c[name].tc, ex)
        ok == tc_add_ok(rule1, ex)
        rule2 == IF ok THEN [rate |-> speed_mbps, burst |-> burst_bytes(speed_mbps)]
                 ELSE rule1
    IN  <<[c EXCEPT ![name].tc = rule2], st[2] \cup {name}>>

(* A pair <<containers, throttled>> is threaded through the helpers. *)
_apply_throttle_to_container(st, name, speed_mbps, ex) ==
    LET c == st[1]
        rule1 == tc_del(c[name].tc, ex)
        ok == tc_add_ok(rule1, ex)
        rule2 == IF ok THEN [rate |-> speed_mbps, burst |-> burst_bytes(speed_mbps)]
                 ELSE rule1
    IN  <<[c EXCEPT ![name].tc = rule2],
          IF ok THEN st[2] \cup {name} ELSE st[2]>>

_remove_throttle_from_container(st, name, ex) ==
    <<[st[1] EXCEPT ![name].tc = tc_del(@, ex)], st[2] \ {name}>>

(* Lines 143-148: port string -> user; a later user replaces an earlier one. *)
port_to_user(users) ==
    LET idx == {i \in 1..Len(users) : "port" \in DOMAIN users[i]}
        keys == {str(users[i].port) : i \in idx}
    IN  [k \in keys |->
            users[CHOOSE i \in idx : /\ str(users[i].port) = k
                                     /\ \A j \in idx : str(users[j].port) = k => j <= i]]

(* Lines 150-157: port string -> running container. *)
container_by_port(running) ==
    LET ported == {n \in running : _port_from_container_name(n) # None}
    IN  [p \in {_port_from_container_name(n) : n \in ported} |->
            CHOOSE n \in ported : _port_from_container_name(n) = p]

user_bytes_of(per_user_traffic, port_str) ==
    LET counters == Get(per_user_traffic, port_str, EmptyDict)
    IN  Get(counters, "rx_bytes", 0) + Get(counters, "tx_bytes", 0)

(* Variant: only a negative limit counts as no limit. *)
no_limit_negative_only(limit_gb) == limit_gb < 0

(* Line 171: not limit_gb or limit_gb <= 0. *)
no_limit(limit_gb) == limit_gb = 0 \/ limit_gb <= 0

(* Variant: throttled only when strictly over. *)
over_limit_strict(user_bytes, limit_bytes) == user_bytes > limit_bytes

(* Line 181. *)
over_limit(user_bytes, limit_bytes) == user_bytes >= limit_bytes

(* Lines 165-186: the decision for one running container. *)
enforce_one(st, port_str, name, c, data, exec) ==
    LET p2u == port_to_user(c.users)
    IN  IF port_str \notin DOMAIN p2u THEN st
        ELSE LET lim == get_user_effective_limits(p2u[port_str], c)
                 limit_gb == lim[1]
                 speed_mbps == lim[2]
                 limit_bytes == limit_gb * GB_BYTES
             IN  IF no_limit(limit_gb)
                 THEN IF name \in st[2]
                      THEN _remove_throttle_from_container(st, name, exec[name])
                      ELSE st
                 ELSE IF over_limit(user_bytes_of(data.per_user, port_str), limit_bytes)
                      THEN IF name \notin st[2]
                           THEN _apply_throttle_to_container(st, name, speed_mbps, exec[name])
                           ELSE st
                      ELSE IF name \in st[2]
                           THEN _remove_throttle_from_container(st, name, exec[name])
                           ELSE st

RECURSIVE enforce_loop(_, _, _, _, _, _)
enforce_loop(st, todo, cbp, c, data, exec) ==
    IF todo = {} THEN st
    ELSE LET p == CHOOSE x \in todo : TRUE
         IN  enforce_loop(enforce_one(st, p, cbp[p], c, data, exec),
                          todo \ {p}, cbp, c, data, exec)

(* Variant: nothing is pruned. *)
prune_stale_none(set, running_names) == set

(* Lines 159-162: the throttled set without the names not running. *)
prune_stale(set, running_names) == set \ (set \ running_names)

(* Variant: the ledger as it was before the cycle's sample. *)
load_traffic_data_before_sample == IF obs.op = "collect" THEN obs.pre ELSE traffic

(* Line 140: the ledger read back from the file the sample was saved to. *)
load_traffic_data == traffic

_check_and_enforce_limits ==
    /\ mon_pc = "enforce"
    /\ LET running_names == _get_containers
           cbp == container_by_port(running_names)
           pruned == prune_stale(throttled, running_names)
           all_ok == [n \in running_names |-> [del |-> TRUE, add |-> TRUE]]
           ideal == enforce_loop(<<containers, pruned>>, DOMAIN cbp, cbp,
                                 cfg, load_traffic_data, all_ok)
           \* the containers a tc command is run in during this cycle
           acting == (ideal[2] \ pruned) \cup (pruned \ ideal[2])
       IN  \E exec \in [acting -> ExecOutcomes] :
             LET st == enforce_loop(<<containers, pruned>>, DOMAIN cbp, cbp,
                                    cfg, load_traffic_data, exec)
             IN  /\ containers' = st[1]
                 /\ throttled' = st[2]
                 /\ obs' = [op |-> "enforce", running |-> running_names,
                            before |-> throttled,
                            rules_before |-> [n \in DOMAIN containers |->
                                                 containers[n].tc],
                            install_failed |-> (acting \ pruned) \ st[2]]
    /\ mon_pc' = "collect"
    /\ UNCHANGED <<cfg, traffic, n_traffic, n_starts, clock, fn,
                   issued, mon_data, disk, saver, nginx, starter, login>>

(* Lines 275-285. *)
RECURSIVE reset_loop(_, _, _)
reset_loop(st, todo, exec) ==
    IF todo = {} THEN st
    ELSE LET n == CHOOSE x \in todo : TRUE
             next == IF n \in st[2]
                     THEN _remove_throttle_from_container(st, n, exec[n])
                     ELSE st
         IN  reset_loop(next, todo \ {n}, exec)

(* Variant: only the running containers leave the set. *)
clear_throttles_running_only(st, running, exec) ==
    IF st[2] # {}
    THEN reset_loop(st, running, exec)
    ELSE st

(* Lines 280-285: the throttles removed and the set cleared. *)
clear_throttles(st, running, exec) ==
    IF st[2] # {}
    THEN <<reset_loop(st, running, exec)[1], {}>>
    ELSE st

reset_traffic_data ==
    /\ clock < MaxResets
    /\ clock' = clock + 1
    /\ traffic' = [_default_traffic EXCEPT !.last_reset = clock']
    /\ \E exec \in [_get_containers \cap throttled -> ExecOutcomes] :
         LET st == clear_throttles(<<containers, throttled>>, _get_containers, exec)
         IN  /\ containers' = st[1]
             /\ throttled' = st[2]
    /\ obs' = [op |-> "reset", before |-> throttled,
                last_reset_before |-> traffic.last_reset,
                last_per_container_before |-> traffic.last_per_container]
    /\ UNCHANGED <<cfg, mon_pc, n_traffic, n_starts, fn,
                   issued, mon_data, disk, saver, nginx, starter, login>>

(* sorted(entries, key=port): the entries in ascending port order. *)
RECURSIVE sort_by_port(_)
sort_by_port(entries) ==
    IF entries = {} THEN <<>>
    ELSE LET e == CHOOSE x \in entries : \A y \in entries : x.port <= y.port
         IN  <<e>> \o sort_by_port(entries \ {e})

(* Variant: the flag of the whole fleet. *)
entry_throttled_any(port_str, set) == set # {}

(* Lines 252, 260: membership of the container named after the port. *)
entry_throttled(port_str, set) == container_name_of(port_str) \in set

(* Lines 246-262: one entry of the per-user list. *)
summary_entry(port_str, counters, c, set) ==
    LET p2u == port_to_user(c.users)
        known == port_str \in DOMAIN p2u
        eff == IF known THEN get_user_effective_limits(p2u[port_str], c)
               ELSE <<c.traffic_limit_gb, Get(c, "throttle_speed_mbps", 1)>>
    IN  [name |-> IF known THEN Get(p2u[port_str], "name", "Unknown") ELSE "Unknown",
         port |-> int(port_str),
         rx_bytes |-> Get(counters, "rx_bytes", 0),
         tx_bytes |-> Get(counters, "tx_bytes", 0),
         limit_gb |-> eff[1],
         throttle_speed_mbps |-> eff[2],
         throttled |-> entry_throttled(port_str, set)]

(* Variant: the percentage is not capped. *)
limit_used_pct_uncapped(total_bytes, limit_gb) ==
    IF limit_gb # 0 /\ limit_gb > 0
    THEN LET limit_bytes == limit_gb * GB_BYTES
         IN  (2 * total_bytes * 1000 + limit_bytes) \div (2 * limit_bytes)
    ELSE 0

(* Line 234: min(round(total / limit * 100, 1), 100), in tenths of a
   percent; the quotient is rounded to the nearest tenth. *)
limit_used_pct(total_bytes, limit_gb) ==
    IF limit_gb # 0 /\ limit_gb > 0
    THEN LET limit_bytes == limit_gb * GB_BYTES
             tenths == (2 * total_bytes * 1000 + limit_bytes) \div (2 * limit_bytes)
         IN  IF tenths < 1000 THEN tenths ELSE 1000
    ELSE 0

(* Lines 225-272, on the ledger, the configuration and the throttled set
   the call finds. *)
summary_of(data, c, set) ==
    LET limit_gb == c.traffic_limit_gb
        per_user_raw == data.per_user
    IN  [rx_bytes |-> data.rx_bytes,
         tx_bytes |-> data.tx_bytes,
         limit_gb |-> limit_gb,
         limit_used_pct |-> limit_used_pct(data.rx_bytes + data.tx_bytes, limit_gb),
         throttle_active |-> Cardinality(set) > 0,
         last_reset |-> data.last_reset,
         per_user |-> sort_by_port({summary_entry(p, per_user_raw[p], c, set) :
                                       p \in DOMAIN per_user_raw})]

get_traffic_summary == summary_of(traffic, cfg, throttled)

-----------------------------------------------------------------------------
(* app/app.py: the settings form (the limit fields) *)

SettingsLimitInputs == {-1, 0, 1, 2}

settings ==
    /\ \E v \in SettingsLimitInputs :
         cfg' = [cfg EXCEPT !.traffic_limit_gb = Max(v, 0)]
    /\ cfg' # cfg
    /\ obs' = [op |-> "settings"]
    /\ UNCHANGED <<containers, traffic, throttled, mon_pc, n_traffic, n_starts, clock, fn,
                   issued, mon_data, disk, saver, nginx, starter, login>>

-----------------------------------------------------------------------------
(* The runtime (Docker): traffic through a container, stop, start *)

TrafficUpTo(max, loads) ==
    /\ n_traffic < max
    /\ \E n \in DOMAIN containers, load \in loads :
        /\ containers[n].status = "running"
        /\ containers' = [containers EXCEPT ![n].rx = @ + load.rx,
                                            ![n].tx = @ + load.tx]
    /\ n_traffic' = n_traffic + 1
    /\ obs' = [op |-> "env"]
    /\ UNCHANGED <<cfg, traffic, throttled, mon_pc, n_starts, clock, fn,
                   issued, mon_data, disk, saver, nginx, starter, login>>

Traffic == TrafficUpTo(MaxTraffic, Loads)

LedgerTraffic == TrafficUpTo(MaxLedgerTraffic, LedgerLoads)

(* A stopped container keeps its name; its network namespace, with the
   interface counters and the tc rule, is gone. *)
ContainerStop ==
    /\ n_starts < MaxStops
    /\ n_starts' = n_starts + 1
    /\ \E n \in DOMAIN containers :
        /\ containers[n].status = "running"
        /\ containers' = [containers EXCEPT
                             ![n] = [status |-> "exited", rx |-> 0, tx |-> 0, tc |-> NoRule]]
    /\ obs' = [op |-> "env"]
    /\ UNCHANGED <<cfg, traffic, throttled, mon_pc, n_traffic, clock, fn,
                   issued, mon_data, disk, saver, nginx, starter, login>>

ContainerStart ==
    /\ \E n \in DOMAIN containers :
        /\ containers[n].status = "exited"
        /\ containers' = [containers EXCEPT ![n].status = "running"]
    /\ obs' = [op |-> "env"]
    /\ UNCHANGED <<cfg, traffic, throttled, mon_pc, n_traffic, n_starts, clock, fn,
                   issued, mon_data, disk, saver, nginx, starter, login>>

-----------------------------------------------------------------------------

BaseUser(port) ==
    [name |-> "user", secret |-> "secret", enabled |-> TRUE, port |-> port]

WithLimit(user, limit_gb) == Put(user, "traffic_limit_gb", limit_gb)

(* Two users on consecutive ports (next_available_port); the first one has
   no limit of its own, the second one carries the value 0, which stands
   for "use the global limit". *)
Users == <<BaseUser(proxy_port), WithLimit(BaseUser(proxy_port + 1), 0)>>

(* The files save_traffic_data and save_config replace. *)
Targets == {"traffic.json", "config.json"}

(* A file's content: which save wrote it, and whether all of it is there. *)
Content(version, complete) == [version |-> version, complete |-> complete]

(* DATA_DIR with both files as first written, no temporary file of a save
   under way, none left behind; no save under way. *)
EmptyDisk ==
    [files |-> [t \in Targets |-> Content(0, TRUE)], tmp |-> None, litter |-> 0]

Idle == [pc |-> "idle", calls |-> 0]

(* The threads that may call start_traffic_monitor. *)
Callers == {"w1", "w2", "w3"}

(* traffic.py 16: _monitor_thread = None; threads are numbered from 1. *)
NoThread == 0

NotStarted ==
    [_monitor_thread |-> NoThread, alive |-> {}, created |-> 0, calls |-> 0,
     pc |-> [t \in Callers |-> "idle"]]

(* The clients of the login form. *)
ClientIPs == {"10.0.0.1", "10.0.0.2"}

(* app.py 27: _login_attempts = {}; no answer given yet. *)
NoAttempts ==
    [_login_attempts |-> [ip \in {} |-> 0], now |-> 0, calls |-> 0,
     granted |-> [ip \in ClientIPs |-> <<>>]]

(* No file: os.path.exists is false. *)
NoFile == [exists |-> FALSE, entries |-> <<>>]

(* nginx_config.py 30-51: the HTTP-only default.conf. *)
_write_default_http_config == [ssl |-> FALSE, listen |-> 80, server_name |-> "_"]

(* nginx_config.py 17-27: after bootstrap_nginx_configs default.conf is the
   HTTP-only one and stream.d is empty; the router runs these files. *)
BootstrapNginx ==
    [stream_conf |-> NoFile,
     default_conf |-> _write_default_http_config,
     loaded |-> TRUE]

InitWith(fleet) ==
    /\ cfg = [users |-> Users,
              proxy_port |-> proxy_port,
              traffic_limit_gb |-> 0,
              throttle_speed_mbps |-> 1]
    /\ containers = [n \in fleet |->
                        [status |-> "running", rx |-> 0, tx |-> 0, tc |-> NoRule]]
    /\ traffic = _default_traffic
    /\ throttled = {}
    /\ mon_pc = "collect"
    /\ obs = [op |-> "init"]
    /\ n_traffic = 0
    /\ n_starts = 0
    /\ clock = 0
    /\ fn = [op |-> "none"]
    /\ issued = {}
    /\ mon_data = None
    /\ disk = EmptyDisk
    /\ saver = Idle
    /\ nginx = BootstrapNginx
    /\ starter = NotStarted
    /\ login = NoAttempts

(* The fleet with one container per user port: ledger and throttling. *)
Init == InitWith(PortFleet)

Next ==
    \/ _collect_stats_snapshot
    \/ _check_and_enforce_limits
    \/ reset_traffic_data
    \/ settings
    \/ Traffic
    \/ ContainerStop
    \/ ContainerStart

Spec == Init /\ [][Next]_vars

(* A per-port container beside the legacy container, no limit configured:
   the ledger alone. *)
InitLedger == InitWith(MixedFleet)

NextLedger ==
    \/ _collect_stats_snapshot
    \/ _check_and_enforce_limits
    \/ reset_traffic_data
    \/ LedgerTraffic
    \/ ContainerStop
    \/ ContainerStart

SpecLedger == InitLedger /\ [][NextLedger]_vars

(* get_user_effective_limits alone, on user and configuration records drawn
   from LimitUsers and LimitConfigs. *)
LimitValues == {-1, 0, 1, 2}

LimitUsers ==
    LET base == BaseUser(proxy_port)
        with_limit == {base} \cup {Put(base, "traffic_limit_gb", v) : v \in LimitValues}
    IN  with_limit \cup
        {Put(u, "throttle_speed_mbps", v) : u \in with_limit, v \in LimitValues}

LimitConfigs ==
    {[users |-> Users, proxy_port |-> proxy_port,
      traffic_limit_gb |-> l, throttle_speed_mbps |-> sp] :
        l \in {-1, 0, 1, 3}, sp \in {1, 5}}

call_get_user_effective_limits ==
    /\ \E user \in LimitUsers, c \in LimitConfigs :
         fn' = [op |-> "limits", user |-> user, cfg |-> c,
                out |-> get_user_effective_limits(user, c)]
    /\ UNCHANGED <<cfg, containers, traffic, throttled, mon_pc, obs,
                   n_traffic, n_starts, clock,
                   issued, mon_data, disk, saver, nginx, starter, login>>

SpecLimits == Init /\ [][call_get_user_effective_limits]_vars

(* get_traffic_summary alone, on ledgers, configurations and throttled
   sets drawn from the sets below: ports 2443 and 2444 belong to users,
   2445 to a user deleted since. *)
SummaryPorts == {str(proxy_port), str(proxy_port + 1), str(proxy_port + 2)}

SummaryCounters(p) ==
    IF p = str(proxy_port) THEN [rx_bytes |-> 512, tx_bytes |-> 1024]
    ELSE [rx_bytes |-> 0, tx_bytes |-> 0]

SummaryLedgers ==
    {[_default_traffic EXCEPT !.rx_bytes = rx, !.tx_bytes = tx,
                              !.per_user = [p \in P |-> SummaryCounters(p)]] :
        rx \in {0, 512}, tx \in {0, 2560}, P \in SUBSET SummaryPorts}

SummaryConfigs ==
    {[users |-> <<BaseUser(proxy_port), u>>, proxy_port |-> proxy_port,
      traffic_limit_gb |-> l, throttle_speed_mbps |-> 1] :
        l \in {0, 1, 3},
        u \in {WithLimit(BaseUser(proxy_port + 1), 0),
               Put(WithLimit(BaseUser(proxy_port + 1), 2), "throttle_speed_mbps", 5)}}

SummaryThrottled ==
    SUBSET {container_name_of(str(proxy_port)), container_name_of(str(proxy_port + 2))}

call_get_traffic_summary ==
    /\ \E data \in SummaryLedgers, c \in SummaryConfigs, set \in SummaryThrottled :
         fn' = [op |-> "summary", data |-> data, cfg |-> c, set |-> set,
                out |-> summary_of(data, c, set)]
    /\ UNCHANGED <<cfg, containers, traffic, throttled, mon_pc, obs,
                   n_traffic, n_starts, clock,
                   issued, mon_data, disk, saver, nginx, starter, login>>

SpecSummary == Init /\ [][call_get_traffic_summary]_vars

-----------------------------------------------------------------------------
(* app/config.py: ports of the users *)

(* Lines 65-74: a user without a port gets base_port + its index (from 0). *)
migrate_user_ports(c) ==
    LET users == c.users
    IN  [c EXCEPT !.users =
            [i \in 1..Len(users) |->
                IF "port" \in DOMAIN users[i] THEN users[i]
                ELSE Put(users[i], "port", c.proxy_port + (i - 1))]]

MaxOf(S) == CHOOSE x \in S : \A y \in S : y <= x

(* Variant: the base port plus the number of users. *)
next_available_port_by_count(c) == c.proxy_port + Len(c.users)

(* Lines 77-84. *)
next_available_port(c) ==
    IF Len(c.users) = 0 THEN c.proxy_port
    ELSE MaxOf({Get(c.users[i], "port", c.proxy_port) : i \in 1..Len(c.users)}) + 1

(* Lines 87-98: the stored configuration, ports migrated (and saved). *)
load_config == migrate_user_ports(cfg)

-----------------------------------------------------------------------------
(* app/services/mtproto.py: the proxy container *)

(* Variant: the enabled flag is not looked at. *)
enabled_users_all(c) == c.users

(* Line 146: u.get("enabled", True). *)
enabled_users(c) == SelectSeq(c.users, LAMBDA u : Get(u, "enabled", TRUE))

Without(cs, name) == [n \in DOMAIN cs \ {name} |-> cs[n]]

(* What the runtime answers to stop() and remove(). *)
StopOutcomes == {"ok", "stop_raises", "remove_raises"}

(* Lines 247-255: the container named proxy_container_name is stopped and
   removed; every exception is swallowed. *)
_stop_all_proxy_containers(cs, out) ==
    IF MTG_PROXY \notin DOMAIN cs THEN cs
    ELSE IF out = "ok" THEN Without(cs, MTG_PROXY)
    ELSE IF out = "remove_raises"
         THEN [cs EXCEPT ![MTG_PROXY] =
                  [@ EXCEPT !.status = "exited", !.rx = 0, !.tx = 0, !.tc = NoRule]]
    ELSE cs

(* What the runtime answers to containers.run(): the container runs, it
   has exited when reloaded, or run() raises before or after creating it. *)
RunOutcomes == {"running", "exited", "create_raises", "start_raises"}

NewContainer(status, user, port) ==
    [status |-> status, rx |-> 0, tx |-> 0, tc |-> NoRule,
     port |-> port, secret |-> user.secret]

(* Lines 170-213: <<containers, result>>.  run() raises when the name is
   taken by a container that was not removed. *)
_start_simple(cs, user, port, out) ==
    IF MTG_PROXY \in DOMAIN cs \/ out = "create_raises"
    THEN <<cs, [success |-> FALSE, error |-> "exception"]>>
    ELSE IF out = "start_raises"
    THEN <<Put(cs, MTG_PROXY, NewContainer("created", user, port)),
           [success |-> FALSE, error |-> "exception"]>>
    ELSE IF out = "exited"
    THEN <<Put(cs, MTG_PROXY, NewContainer("exited", user, port)),
           [success |-> FALSE, error |-> "Container exited"]>>
    ELSE <<Put(cs, MTG_PROXY, NewContainer("running", user, port)),
           [success |-> TRUE, container_id |-> "id", status |-> "running"]>>

(* Lines 216-244: the first enabled user only. *)
_start_multi(cs, users, base_port, out) ==
    LET r == _start_simple(cs, users[1], base_port, out)
    IN  IF r[2].success /\ Len(users) > 1
        THEN <<r[1], Put(r[2], "warning", Len(users) - 1)>>
        ELSE r

StartOutcomes == [stop : StopOutcomes, image : BOOLEAN, run : RunOutcomes]

(* The answers to the calls start_proxy makes from c and cs; a call that
   is not made has the first answer. *)
StartOutcomesFor(c, cs) ==
    {o \in StartOutcomes :
        /\ MTG_PROXY \notin DOMAIN cs => o.stop = "ok"
        /\ Len(enabled_users(c)) = 0 => o.image
        /\ (Len(enabled_users(c)) = 0 \/ ~o.image) => o.run = "running"
        /\ (/\ Len(enabled_users(c)) > 0
            /\ o.image
            /\ MTG_PROXY \in DOMAIN _stop_all_proxy_containers(cs, o.stop))
              => o.run = "create_raises"}

(* Lines 137-167: <<containers, result>>; c is what load_config returns. *)
start_proxy(c, cs, out) ==
    LET cs1 == _stop_all_proxy_containers(cs, out.stop)
        users == enabled_users(c)
    IN  IF Len(users) = 0
        THEN <<cs1, [success |-> FALSE, error |-> "No enabled users/secrets configured"]>>
        ELSE IF ~out.image
        THEN <<cs1, [success |-> FALSE, error |-> "Failed to pull image"]>>
        ELSE IF Len(users) = 1
        THEN _start_simple(cs1, users[1], c.proxy_port, out.run)
        ELSE _start_multi(cs1, users, c.proxy_port, out.run)

(* Lines 258-265. *)
stop_proxy(cs, out) == _stop_all_proxy_containers(cs, out)

RestartOutcomes == [first_stop : StopOutcomes, start : StartOutcomes]

RestartOutcomesFor(c, cs) ==
    {o \in RestartOutcomes :
        /\ MTG_PROXY \notin DOMAIN cs => o.first_stop = "ok"
        /\ o.start \in StartOutcomesFor(c, stop_proxy(cs, o.first_stop))}

(* Lines 268-270. *)
restart_proxy(c, cs, out) == start_proxy(c, stop_proxy(cs, out.first_stop), out.start)

(* Lines 57-83: status["running"]. *)
proxy_running(cs) == MTG_PROXY \in DOMAIN cs /\ cs[MTG_PROXY].status = "running"

RunningNames(cs) == {n \in DOMAIN cs : cs[n].status = "running"}

-----------------------------------------------------------------------------
(* app/app.py: the users and the proxy controls *)

MaxPortSpan == 2

Secrets == {"s1", "s2"}

Names == {"", "user"}

(* The variables the handlers below leave alone. *)
monitor_vars == <<traffic, throttled, mon_pc, n_traffic, n_starts, clock, fn,
                  mon_data, disk, saver, nginx, starter, login>>

(* Lines 210-213, 225-227, 241-243: restart_proxy when the proxy runs. *)
restart_if_running(c, cs, out) ==
    IF proxy_running(cs) THEN restart_proxy(c, cs, out) ELSE <<cs, None>>

NoCalls == [first_stop |-> "ok", start |-> [stop |-> "ok", image |-> TRUE, run |-> "running"]]

IfRunningOutcomesFor(c, cs) ==
    IF proxy_running(cs) THEN RestartOutcomesFor(c, cs) ELSE {NoCalls}

(* Lines 207-213, 224-227, 240-243: what a handler that changed the users
   calls, in this order, before it returns. *)
calls_after_change(cs) ==
    <<"save_config", "get_proxy_status">>
    \o (IF proxy_running(cs) THEN <<"restart_proxy">> ELSE <<>>)

(* Lines 189-217. *)
user_add ==
    /\ next_available_port(load_config) < proxy_port + MaxPortSpan
    /\ \E name \in Names :
         LET c == load_config
             port == next_available_port(c)
         IN  IF name = ""
             THEN /\ cfg' = c
                  /\ obs' = [op |-> "user_add", added |-> FALSE]
                  /\ UNCHANGED <<containers, issued>>
             ELSE \E secret \in Secrets :
                    LET user == [name |-> name, secret |-> secret,
                                 enabled |-> TRUE, port |-> port]
                        c2 == [c EXCEPT !.users = Append(@, user)]
                    IN  \E out \in IfRunningOutcomesFor(c2, containers) :
                          LET r == restart_if_running(c2, containers, out)
                          IN  /\ cfg' = c2
                              /\ containers' = r[1]
                              /\ issued' = issued \cup {port}
                              /\ obs' = [op |-> "user_add", added |-> TRUE,
                                         port |-> port, issued_before |-> issued,
                                         restart |-> r[2],
                                         calls |-> calls_after_change(containers)]
    /\ UNCHANGED monitor_vars

(* Lines 219-232; idx counts from 0. *)
user_toggle ==
    /\ \E idx \in 0..Len(cfg.users) :
         LET c == load_config
         IN  IF 0 <= idx /\ idx < Len(c.users)
             THEN LET c2 == [c EXCEPT !.users[idx + 1].enabled =
                                          ~Get(c.users[idx + 1], "enabled", TRUE)]
                  IN  \E out \in IfRunningOutcomesFor(c2, containers) :
                        LET r == restart_if_running(c2, containers, out)
                        IN  /\ cfg' = c2
                            /\ containers' = r[1]
                            /\ obs' = [op |-> "user_toggle", done |-> TRUE,
                                       restart |-> r[2],
                                       calls |-> calls_after_change(containers)]
             ELSE /\ cfg' = c
                  /\ obs' = [op |-> "user_toggle", done |-> FALSE]
                  /\ UNCHANGED containers
    /\ UNCHANGED <<issued, monitor_vars>>

Pop(seq, i) == SubSeq(seq, 1, i - 1) \o SubSeq(seq, i + 1, Len(seq))

(* Lines 234-247; idx counts from 0. *)
user_delete ==
    /\ \E idx \in 0..Len(cfg.users) :
         LET c == load_config
         IN  IF 0 <= idx /\ idx < Len(c.users)
             THEN LET c2 == [c EXCEPT !.users = Pop(@, idx + 1)]
                  IN  \E out \in IfRunningOutcomesFor(c2, containers) :
                        LET r == restart_if_running(c2, containers, out)
                        IN  /\ cfg' = c2
                            /\ containers' = r[1]
                            /\ obs' = [op |-> "user_delete", done |-> TRUE,
                                       restart |-> r[2],
                                       calls |-> calls_after_change(containers)]
             ELSE /\ cfg' = c
                  /\ obs' = [op |-> "user_delete", done |-> FALSE]
                  /\ UNCHANGED containers
    /\ UNCHANGED <<issued, monitor_vars>>

StartOps == {"proxy_start", "proxy_restart"}

(* What a call of start_proxy leaves for inspection. *)
StartRecord(op, r, out) ==
    [op |-> op,
     result |-> r[2],
     running_before |-> RunningNames(containers),
     started |-> IF r[2].success THEN {MTG_PROXY} ELSE {},
     stops_ok |-> out.stop = "ok",
     starts_ok |-> out.image /\ out.run = "running",
     repeated |-> obs.op \in StartOps /\ obs.stops_ok /\ obs.starts_ok]

(* Lines 264-276. *)
proxy_start ==
    /\ \E out \in StartOutcomesFor(load_config, containers) :
         LET c == load_config
             r == start_proxy(c, containers, out)
         IN  /\ cfg' = c
             /\ containers' = r[1]
             /\ obs' = StartRecord("proxy_start", r, out)
    /\ UNCHANGED <<issued, monitor_vars>>

(* Lines 278-286. *)
proxy_stop ==
    /\ \E out \in StopOutcomes :
         /\ MTG_PROXY \notin DOMAIN containers => out = "ok"
         /\ cfg' = load_config
         /\ containers' = stop_proxy(containers, out)
         /\ obs' = [op |-> "proxy_stop", result |-> [success |-> TRUE]]
    /\ UNCHANGED <<issued, monitor_vars>>

(* Lines 288-300. *)
proxy_restart ==
    /\ \E out \in RestartOutcomesFor(load_config, containers) :
         LET c == load_config
             r == restart_proxy(c, containers, out)
         IN  /\ cfg' = c
             /\ containers' = r[1]
             /\ obs' = StartRecord("proxy_restart", r, out.start)
    /\ UNCHANGED <<issued, monitor_vars>>

(* A configuration written before users had ports, or a fresh one. *)
LegacyUser(secret) == [name |-> "user", secret |-> secret, enabled |-> TRUE]

LegacyUserLists == {<<>>, <<LegacyUser("s1")>>, <<LegacyUser("s1"), LegacyUser("s2")>>}

InitProxy ==
    /\ cfg \in {[users |-> us, proxy_port |-> proxy_port,
                 traffic_limit_gb |-> 0, throttle_speed_mbps |-> 1] :
                    us \in LegacyUserLists}
    /\ containers = EmptyDict
    /\ traffic = _default_traffic
    /\ throttled = {}
    /\ mon_pc = "collect"
    /\ obs = [op |-> "init"]
    /\ n_traffic = 0
    /\ n_starts = 0
    /\ clock = 0
    /\ fn = [op |-> "none"]
    /\ issued = {}
    /\ mon_data = None
    /\ disk = EmptyDisk
    /\ saver = Idle
    /\ nginx = BootstrapNginx
    /\ starter = NotStarted
    /\ login = NoAttempts

NextProxy ==
    \/ user_add
    \/ user_toggle
    \/ user_delete
    \/ proxy_start
    \/ proxy_stop
    \/ proxy_restart

SpecProxy == InitProxy /\ [][NextProxy]_vars

-----------------------------------------------------------------------------
(* app/services/traffic.py: _collect_stats_snapshot step by step.  _lock is
   held inside load_traffic_data and inside save_traffic_data, and released
   in between, so the web thread's reset_traffic_data can run between the
   monitor's load and its save. *)

(* Lines 85-90: the running containers are listed and the ledger loaded. *)
collect_load ==
    /\ mon_pc = "collect"
    /\ IF _get_containers = {}
       THEN /\ mon_pc' = "enforce"
            /\ mon_data' = mon_data
            /\ obs' = [op |-> "collect", saved |-> FALSE]
       ELSE /\ mon_pc' = "loaded"
            /\ mon_data' = [data |-> traffic, containers |-> _get_containers]
            /\ obs' = [op |-> "collect_load"]
    /\ UNCHANGED <<cfg, containers, traffic, throttled, n_traffic, n_starts, clock, fn,
                   issued, disk, saver, nginx, starter, login>>

(* Lines 92-133: the counters are read, the deltas added to the loaded
   ledger, and the result saved. *)
collect_save ==
    /\ mon_pc = "loaded"
    /\ \E outcome \in [mon_data.containers -> StatOutcomes] :
         traffic' = collect_loop(mon_data.data, mon_data.containers, outcome)
    /\ mon_pc' = "enforce"
    /\ mon_data' = None
    /\ obs' = [op |-> "collect_save", loaded |-> mon_data.data, on_disk |-> traffic]
    /\ UNCHANGED <<cfg, containers, throttled, n_traffic, n_starts, clock, fn,
                   issued, disk, saver, nginx, starter, login>>

NextRace ==
    \/ collect_load
    \/ collect_save
    \/ _check_and_enforce_limits
    \/ reset_traffic_data
    \/ settings
    \/ Traffic

SpecRace == Init /\ [][NextRace]_vars

-----------------------------------------------------------------------------
(* app/services/traffic.py save_traffic_data, app/config.py save_config:
   write to a temporary file, then replace *)

MaxSaves == 2

save_vars == <<cfg, containers, traffic, throttled, mon_pc, n_traffic, n_starts, clock,
               fn, issued, mon_data, nginx, starter, login>>

(* traffic.py 59-60, config.py 103-104: makedirs and mkstemp; when they
   raise, no temporary file exists and the caller gets the exception. *)
save_begin ==
    /\ saver.pc = "idle"
    /\ saver.calls < MaxSaves
    /\ \E target \in Targets, ok \in BOOLEAN :
         LET call == [target |-> target,
                      calls |-> saver.calls + 1,
                      prev |-> disk.files[target].version,
                      new |-> saver.calls + 1,
                      litter_before |-> disk.litter]
         IN  IF ok
             THEN /\ disk' = [disk EXCEPT !.tmp = Content(call.new, FALSE)]
                  /\ saver' = call @@ [pc |-> "write"]
             ELSE /\ disk' = disk
                  /\ saver' = call @@ [pc |-> "returned", raised |-> TRUE,
                                       failed_at |-> "mkstemp"]
    /\ obs' = [op |-> "save_begin"]
    /\ UNCHANGED save_vars

(* Variant: the target file itself is opened and written. *)
write_in_place(d, target, new, ok) ==
    [d EXCEPT !.files[target] = Content(new, ok)]

(* traffic.py 62-63, config.py 106-107: json.dump into the temporary
   file; a failure leaves part of the text in it. *)
write_tmp(d, target, new, ok) ==
    [d EXCEPT !.tmp = Content(new, ok)]

save_write ==
    /\ saver.pc = "write"
    /\ \E ok \in BOOLEAN :
         /\ disk' = write_tmp(disk, saver.target, saver.new, ok)
         /\ saver' = IF ok THEN [saver EXCEPT !.pc = "replace"]
                     ELSE [saver EXCEPT !.pc = "cleanup"] @@ [failed_at |-> "write"]
    /\ obs' = [op |-> "save_write"]
    /\ UNCHANGED save_vars

(* traffic.py 64, config.py 108: os.replace, all or nothing. *)
save_replace ==
    /\ saver.pc = "replace"
    /\ \E ok \in BOOLEAN :
         IF ok
         THEN /\ disk' = [disk EXCEPT !.files[saver.target] = disk.tmp, !.tmp = None]
              /\ saver' = [saver EXCEPT !.pc = "returned"] @@ [raised |-> FALSE]
         ELSE /\ disk' = disk
              /\ saver' = [saver EXCEPT !.pc = "cleanup"] @@ [failed_at |-> "replace"]
    /\ obs' = [op |-> "save_replace"]
    /\ UNCHANGED save_vars

(* traffic.py 66-69, config.py 110-113: os.unlink; an OSError is passed
   over and the temporary file stays behind. *)
unlink_tmp(d, ok) ==
    IF ok THEN [d EXCEPT !.tmp = None]
    ELSE [d EXCEPT !.tmp = None, !.litter = @ + 1]

(* traffic.py 65-70, config.py 109-114: cleanup, then raise. *)
save_cleanup ==
    /\ saver.pc = "cleanup"
    /\ \E ok \in BOOLEAN :
         /\ disk' = unlink_tmp(disk, ok)
         /\ saver' = [saver EXCEPT !.pc = "returned"] @@
                         [raised |-> TRUE, unlinked |-> ok]
    /\ obs' = [op |-> "save_cleanup"]
    /\ UNCHANGED save_vars

(* The process is killed inside a save: its temporary file stays behind. *)
save_crash ==
    /\ saver.pc \in {"write", "replace", "cleanup"}
    /\ disk' = [disk EXCEPT !.tmp = None, !.litter = @ + 1]
    /\ saver' = [pc |-> "crashed", calls |-> saver.calls, target |-> saver.target,
                 prev |-> saver.prev, new |-> saver.new,
                 litter_before |-> saver.litter_before]
    /\ obs' = [op |-> "save_crash"]
    /\ UNCHANGED save_vars

(* The caller goes on (or the service is started again). *)
save_end ==
    /\ saver.pc \in {"returned", "crashed"}
    /\ saver' = [pc |-> "idle", calls |-> saver.calls]
    /\ obs' = [op |-> "save_end"]
    /\ UNCHANGED <<disk, save_vars>>

NextSave ==
    \/ save_begin
    \/ save_write
    \/ save_replace
    \/ save_cleanup
    \/ save_crash
    \/ save_end

SpecSave == Init /\ [][NextSave]_vars

-----------------------------------------------------------------------------
(* app/services/traffic.py _monitor_loop: the cycle that fails *)

(* Variant: the exception leaves the loop and the thread ends. *)
after_exception_propagates == "stopped"

(* Lines 294-296: except Exception logs the error; the loop goes on to
   time.sleep. *)
after_exception == "sleep"

(* Lines 291-295: _collect_stats_snapshot or _check_and_enforce_limits
   raises (save_traffic_data re-raises a failed write, load_config a
   config file that does not parse); the rest of the cycle is skipped.
   The ledger is only ever replaced whole, so it is as it was. *)
cycle_raises ==
    /\ mon_pc \in {"collect", "enforce"}
    /\ mon_pc' = after_exception
    /\ obs' = [op |-> "cycle_failed", at |-> mon_pc]
    /\ UNCHANGED <<cfg, containers, traffic, throttled, n_traffic, n_starts, clock, fn,
                   issued, mon_data, disk, saver, nginx, starter, login>>

(* Line 296: time.sleep(interval) after a cycle that failed, then the
   top of the loop.  (After a cycle that did not fail the sleep is the
   end of _check_and_enforce_limits' step.) *)
sleep ==
    /\ mon_pc = "sleep"
    /\ mon_pc' = "collect"
    /\ obs' = [op |-> "sleep"]
    /\ UNCHANGED <<cfg, containers, traffic, throttled, n_traffic, n_starts, clock, fn,
                   issued, mon_data, disk, saver, nginx, starter, login>>

(* The steps of the monitor thread. *)
monitor_step ==
    \/ cycle_raises
    \/ sleep
    \/ _collect_stats_snapshot
    \/ _check_and_enforce_limits

NextLoop ==
    \/ _collect_stats_snapshot
    \/ _check_and_enforce_limits
    \/ cycle_raises
    \/ sleep
    \/ Traffic
    \/ ContainerStop

(* The monitor is a thread of its own (lines 304-309): it is given the
   processor again and again, whatever the web handlers do. *)
SpecLoop == Init /\ [][NextLoop]_vars /\ WF_vars(monitor_step)

-----------------------------------------------------------------------------
(* app/services/nginx_config.py: the SNI routing table of the edge router *)

LOCAL_HOST == <<"1", "2", "7", ".", "0", ".", "0", ".", "1">>

(* Lines 158-159: "127.0.0.1:8443". *)
LOCAL_SSL_PORT == 8443

(* One line of the map block: "    <name>  <host>:<port>;". *)
map_entry(name, host, port) == [name |-> name, host |-> host, port |-> port]

(* Variant: every user with a fronting domain, enabled or not. *)
routable_users_all(c) ==
    SelectSeq(Get(c, "users", <<>>), LAMBDA u : Get(u, "fake_tls_domain", "") # "")

(* Lines 141-145: the enabled users with a fake_tls_domain that is set. *)
routable_users(c) ==
    SelectSeq(SelectSeq(Get(c, "users", <<>>), LAMBDA u : Get(u, "enabled", TRUE)),
              LAMBDA u : Get(u, "fake_tls_domain", "") # "")

(* Lines 148-159: the users' entries, the panel's, the default one. *)
map_entries(c) ==
    LET routable == routable_users(c)
        domain == Get(c, "server_domain", "")
        of_users == [i \in 1..Len(routable) |->
                        LET port == Get(routable[i], "port", 2443)
                        IN  map_entry(routable[i].fake_tls_domain,
                                      container_name_of(str(port)), port)]
        panel == IF domain # "" THEN <<map_entry(domain, LOCAL_HOST, LOCAL_SSL_PORT)>>
                 ELSE <<>>
    IN  of_users \o panel \o <<map_entry("default", LOCAL_HOST, LOCAL_SSL_PORT)>>

(* Variant: with the mode off the file is left as it is. *)
write_stream_config_keeps(c, file) ==
    IF ~Get(c, "port_443_mode", FALSE) THEN file
    ELSE [exists |-> TRUE, entries |-> map_entries(c)]

(* Lines 124-178: stream.d/proxy.conf after the call, from the file before. *)
write_stream_config(c, file) ==
    IF ~Get(c, "port_443_mode", FALSE) THEN NoFile
    ELSE [exists |-> TRUE, entries |-> map_entries(c)]

(* Lines 54-121: conf.d/default.conf after the call; has_ssl is whether the
   certificate directory of the domain exists. *)
write_http_config(c, cert_dir) ==
    LET domain == Get(c, "server_domain", "")
        has_ssl == domain # "" /\ cert_dir
    IN  IF ~has_ssl THEN _write_default_http_config
        ELSE [ssl |-> TRUE,
              listen |-> IF Get(c, "port_443_mode", FALSE) THEN 8443 ELSE 443,
              server_name |-> domain]

(* What the runtime answers to the reload: the command ran with exit code
   0, with another exit code, the container is not there, the call raises. *)
ReloadOutcomes == {"ok", "exit_nonzero", "not_found", "raises"}

(* Variant: without the handlers of lines 193-196. *)
reload_nginx_unguarded(outcome) ==
    [raised |-> outcome \in {"not_found", "raises"}, reloaded |-> outcome = "ok"]

(* Lines 181-196: every failure is logged, none is raised. *)
reload_nginx(outcome) ==
    [raised |-> FALSE, reloaded |-> outcome = "ok"]

(* The router after the reload attempt: it runs the files as they are
   when the reload succeeded, what it ran before otherwise. *)
after_reload(ng, r) == IF r.reloaded THEN [ng EXCEPT !.loaded = TRUE] ELSE ng

(* The files after a write: the router has not loaded what changed. *)
after_write(old, new) ==
    IF new.stream_conf = old.stream_conf /\ new.default_conf = old.default_conf
    THEN new
    ELSE [new EXCEPT !.loaded = FALSE]

(* The configurations handed to the builder. *)
FrontedUsers(port, domain) ==
    {BaseUser(port), Put(BaseUser(port), "fake_tls_domain", domain),
     [Put(BaseUser(port), "fake_tls_domain", domain) EXCEPT !.enabled = FALSE]}

NginxUserLists ==
    LET first == FrontedUsers(proxy_port, "a.example")
                    \cup {Put(BaseUser(proxy_port), "fake_tls_domain", "")}
    IN  {<<>>} \cup {<<u>> : u \in first}
        \cup {<<u, v>> : u \in first, v \in FrontedUsers(proxy_port + 1, "b.example")}

NginxConfigs ==
    {[users |-> us, proxy_port |-> proxy_port, server_domain |-> d] :
        us \in NginxUserLists, d \in {"", "panel.example"}}
    \cup {[users |-> us, proxy_port |-> proxy_port, server_domain |-> d,
           port_443_mode |-> m] :
             us \in NginxUserLists, d \in {"", "panel.example"}, m \in BOOLEAN}

nginx_vars == <<cfg, containers, traffic, throttled, mon_pc, n_traffic, n_starts, clock,
                fn, issued, mon_data, disk, saver, starter, login>>

call_write_stream_config ==
    /\ \E c \in NginxConfigs :
         /\ nginx' = after_write(nginx,
                [nginx EXCEPT !.stream_conf = write_stream_config(c, @)])
         /\ obs' = [op |-> "write_stream_config", cfg |-> c,
                    existed |-> nginx.stream_conf.exists]
    /\ UNCHANGED nginx_vars

call_reload_nginx ==
    /\ \E outcome \in ReloadOutcomes :
         LET r == reload_nginx(outcome)
         IN  /\ nginx' = after_reload(nginx, r)
             /\ obs' = [op |-> "reload_nginx", outcome |-> outcome, raised |-> r.raised]
    /\ UNCHANGED nginx_vars

(* Lines 199-203. *)
apply_port_443_mode ==
    /\ \E c \in NginxConfigs, cert_dir \in BOOLEAN, outcome \in ReloadOutcomes :
         LET written == after_write(nginx,
                            [nginx EXCEPT
                                !.default_conf = write_http_config(c, cert_dir),
                                !.stream_conf = write_stream_config(c, @)])
             r == reload_nginx(outcome)
         IN  /\ nginx' = after_reload(written, r)
             /\ obs' = [op |-> "apply_port_443_mode", cfg |-> c, cert_dir |-> cert_dir,
                        outcome |-> outcome, raised |-> r.raised,
                        existed |-> nginx.stream_conf.exists]
    /\ UNCHANGED nginx_vars

NextNginx ==
    \/ call_write_stream_config
    \/ call_reload_nginx
    \/ apply_port_443_mode

SpecNginx == Init /\ [][NextNginx]_vars

-----------------------------------------------------------------------------
(* Properties of the ledger, checked under SpecLedger and Spec *)

AfterCollect == obs.op = "collect" /\ obs.saved

(* The counter of container n, direction d, in the ledger's last sample
   before the cycle; 0 for a container never sampled. *)
PrevCounter(n, d) ==
    IF n \in DOMAIN obs.pre.last_per_container
    THEN obs.pre.last_per_container[n][d]
    ELSE 0

(* What the cycle has to add for container n, direction d. *)
ExpectedDelta(n, d) ==
    IF obs.samples[n][d] >= PrevCounter(n, d)
    THEN obs.samples[n][d] - PrevCounter(n, d)
    ELSE obs.samples[n][d]

ExpectedSum(names, d) ==
    SumOver([n \in names |-> ExpectedDelta(n, d)], names)

(* The name is "<anything>-<digits>"; its port is the digits. *)
EndsInPort(n) ==
    \E i \in 1..(Len(n) - 1) :
        /\ n[i] = "-"
        /\ \A j \in (i + 1)..Len(n) : n[j] \in DigitChars

PortOf(n) ==
    LET i == CHOOSE k \in 1..(Len(n) - 1) :
                 n[k] = "-" /\ \A j \in (k + 1)..Len(n) : n[j] \in DigitChars
    IN  SubSeq(n, i + 1, Len(n))

PerUserTotal(data, p, key) ==
    IF p \in DOMAIN data.per_user THEN data.per_user[p][key] ELSE 0

(* C1: a sampling cycle adds, for every container read, current - previous
   (or current, when the counter went backwards) to the aggregate rx and tx
   totals and, for a container named "...-<port>", to that port's totals;
   previous is 0 for a container never sampled; rx and tx independently;
   nothing else is added. *)
C1_DeltaAccounting ==
    AfterCollect =>
        LET read == DOMAIN obs.samples
            ports == {PortOf(n) : n \in {m \in read : EndsInPort(m)}}
        IN  /\ traffic.rx_bytes = obs.pre.rx_bytes + ExpectedSum(read, "rx")
            /\ traffic.tx_bytes = obs.pre.tx_bytes + ExpectedSum(read, "tx")
            /\ DOMAIN traffic.per_user = DOMAIN obs.pre.per_user \cup ports
            /\ \A p \in DOMAIN traffic.per_user :
                 LET of_p == {n \in read : EndsInPort(n) /\ PortOf(n) = p}
                 IN  /\ traffic.per_user[p].rx_bytes =
                          PerUserTotal(obs.pre, p, "rx_bytes") + ExpectedSum(of_p, "rx")
                     /\ traffic.per_user[p].tx_bytes =
                          PerUserTotal(obs.pre, p, "tx_bytes") + ExpectedSum(of_p, "tx")

(* A cycle that read a per-port container after a restart: its rx counter
   is below the last sample and not 0, its tx counter is not below. *)
C1_Witness ==
    /\ AfterCollect
    /\ \E n \in DOMAIN obs.samples :
         /\ EndsInPort(n)
         /\ obs.samples[n].rx < PrevCounter(n, "rx")
         /\ obs.samples[n].rx > 0
         /\ obs.samples[n].tx >= PrevCounter(n, "tx")

(* C2: after a sampling cycle that persisted the ledger, last_per_container
   holds, for every container read in the cycle, the raw counters read,
   whatever the sign of the delta. *)
C2_LastSampleIsRaw ==
    AfterCollect =>
        \A n \in DOMAIN obs.samples :
            /\ n \in DOMAIN traffic.last_per_container
            /\ traffic.last_per_container[n].rx = obs.samples[n].rx
            /\ traffic.last_per_container[n].tx = obs.samples[n].tx

(* A cycle in which one container's counters did not move and another
   one's went backwards. *)
C2_Witness ==
    /\ AfterCollect
    /\ \E n, m \in DOMAIN obs.samples :
         /\ obs.samples[n].rx = PrevCounter(n, "rx")
         /\ obs.samples[n].tx = PrevCounter(n, "tx")
         /\ obs.samples[n].rx + obs.samples[n].tx > 0
         /\ obs.samples[m].rx + obs.samples[m].tx
              < PrevCounter(m, "rx") + PrevCounter(m, "tx")

NoTotalDecreases(old, new) ==
    /\ new.rx_bytes >= old.rx_bytes
    /\ new.tx_bytes >= old.tx_bytes
    /\ \A p \in DOMAIN old.per_user :
         /\ p \in DOMAIN new.per_user
         /\ new.per_user[p].rx_bytes >= old.per_user[p].rx_bytes
         /\ new.per_user[p].tx_bytes >= old.per_user[p].tx_bytes

(* C3: no step other than reset_traffic_data lowers the persisted
   aggregate totals or a per-user total. *)
C3_MonotoneTotals ==
    [][obs'.op # "reset" => NoTotalDecreases(traffic, traffic')]_vars

(* The ledger after a cycle that read a counter gone backwards, with
   totals above zero. *)
C3_Witness ==
    /\ AfterCollect
    /\ traffic.rx_bytes + traffic.tx_bytes > 0
    /\ \E n \in DOMAIN obs.samples :
         obs.samples[n].rx + obs.samples[n].tx
           < PrevCounter(n, "rx") + PrevCounter(n, "tx")

-----------------------------------------------------------------------------
(* Properties of the throttle controller, checked under Spec *)

AfterEnforce == obs.op = "enforce"

(* The configured user of the port written as p, if any. *)
UsersOfPort(p) == {i \in 1..Len(cfg.users) : cfg.users[i].port = int(p)}

UserOfPort(p) == cfg.users[CHOOSE i \in UsersOfPort(p) : TRUE]

OwnPositive(user, key) == key \in DOMAIN user /\ user[key] > 0

EffectiveLimit(user) ==
    IF OwnPositive(user, "traffic_limit_gb") THEN user.traffic_limit_gb
    ELSE cfg.traffic_limit_gb

Usage(p) == PerUserTotal(traffic, p, "rx_bytes") + PerUserTotal(traffic, p, "tx_bytes")

(* A running container seen by the cycle that belongs to a configured user. *)
Governed(n) ==
    /\ n \in obs.running
    /\ EndsInPort(n)
    /\ UsersOfPort(PortOf(n)) # {}

LimitOf(n) == EffectiveLimit(UserOfPort(PortOf(n)))

AtOrOver(n) == Usage(PortOf(n)) >= LimitOf(n) * GB_BYTES

(* C4: after an enforcement cycle whose rule installations all succeeded,
   a running container of a configured user with a positive effective limit
   is in the throttled set exactly when the user's rx + tx total is at or
   over limit_gb * 1024^3. *)
C4_ThrottledIffOverLimit ==
    (AfterEnforce /\ obs.install_failed = {}) =>
        \A n \in DOMAIN containers :
            (Governed(n) /\ LimitOf(n) > 0) => (n \in throttled <=> AtOrOver(n))

(* A cycle that throttled a container whose user is exactly at the limit
   and left alone one whose user is below a positive limit. *)
C4_Witness ==
    /\ AfterEnforce /\ obs.install_failed = {}
    /\ \E n, m \in DOMAIN containers :
         /\ Governed(n) /\ LimitOf(n) > 0
         /\ Usage(PortOf(n)) = LimitOf(n) * GB_BYTES
         /\ n \in throttled /\ n \notin obs.before
         /\ Governed(m) /\ LimitOf(m) > 0 /\ m \notin throttled

(* C5: a container that was throttled and is running when an enforcement
   cycle starts is out of the throttled set when the cycle ends, if its
   user's effective limit is not positive, whatever the usage, or if the
   usage is below the limit. *)
C5_Unthrottle ==
    AfterEnforce =>
        \A n \in obs.before :
            (Governed(n) /\ (LimitOf(n) <= 0 \/ ~AtOrOver(n))) => n \notin throttled

(* A cycle that released a container whose user has usage and no limit any
   more. *)
C5_Witness ==
    /\ AfterEnforce
    /\ \E n \in obs.before :
         /\ Governed(n)
         /\ LimitOf(n) <= 0
         /\ Usage(PortOf(n)) > 0
         /\ n \notin throttled

(* The other case of C5: a container released because the limit was raised
   above the usage. *)
C5_BelowLimitReached ==
    /\ AfterEnforce
    /\ \E n \in obs.before :
         /\ Governed(n)
         /\ LimitOf(n) > 0
         /\ ~AtOrOver(n)
         /\ n \notin throttled

(* C6: at the end of an enforcement cycle, every container in the throttled
   set carries the rate-limit rule, also when it was stopped and started
   again under the same name since the previous cycle. *)
C6_MembershipImpliesRule ==
    AfterEnforce =>
        \A n \in throttled : containers[n].tc # NoRule

(* C7: at the end of an enforcement cycle the throttled set holds only
   names of containers seen running in that cycle. *)
C7_ThrottledSubsetOfRunning ==
    AfterEnforce => throttled \subseteq obs.running

(* A cycle that found a throttled name whose container was not running. *)
C7_Witness ==
    /\ AfterEnforce
    /\ obs.before \ obs.running # {}
    /\ throttled \subseteq obs.running

(* C8: when reset_traffic_data returns, the ledger holds zero totals, no
   per-user entry, no last sample and a new last_reset stamp, and the
   throttled set is empty. *)
C8_ResetClearsAll ==
    obs.op = "reset" =>
        /\ traffic.rx_bytes = 0
        /\ traffic.tx_bytes = 0
        /\ DOMAIN traffic.per_user = {}
        /\ DOMAIN traffic.last_per_container = {}
        /\ traffic.last_reset = clock
        /\ traffic.last_reset # obs.last_reset_before
        /\ throttled = {}

(* A reset that found a throttled container that was not running. *)
C8_Witness ==
    /\ obs.op = "reset"
    /\ \E n \in obs.before : containers[n].status # "running"
    /\ throttled = {}

(* The running containers of configured users with a positive limit whose
   user is at or over it. *)
OverLimit == {n \in DOMAIN containers : Governed(n) /\ LimitOf(n) > 0 /\ AtOrOver(n)}

SameLimitForAll ==
    \A i, j \in 1..Len(cfg.users) :
        /\ EffectiveLimit(cfg.users[i]) = EffectiveLimit(cfg.users[j])
        /\ EffectiveLimit(cfg.users[i]) > 0

SummaryFlags(n) ==
    LET entries == get_traffic_summary.per_user
    IN  \A i \in 1..Len(entries) :
            entries[i].throttled <=> (entries[i].port = int(PortOf(n)))

(* C9: all users under one positive limit and nothing throttled; when one
   user only is at or over the limit, the enforcement cycle (installations
   succeeding) moves that user's container into the throttled set, leaves
   every other container as it was, and the summary then reports throttled
   for that port and for no other. *)
C9_OnlyTheUserOverLimit ==
    (/\ AfterEnforce /\ obs.install_failed = {}
     /\ obs.before = {}
     /\ SameLimitForAll
     /\ Cardinality(OverLimit) = 1) =>
        \A n \in OverLimit :
            /\ throttled = {n}
            /\ \A m \in DOMAIN containers \ {n} :
                   containers[m].tc = obs.rules_before[m]
            /\ SummaryFlags(n)

(* Two users with ledger entries, one at the limit and throttled by the
   cycle, the other not. *)
C9_Witness ==
    /\ AfterEnforce /\ obs.install_failed = {}
    /\ obs.before = {}
    /\ SameLimitForAll
    /\ Cardinality(OverLimit) = 1
    /\ Len(get_traffic_summary.per_user) = Len(cfg.users)
    /\ \E i \in 1..Len(cfg.users) : get_traffic_summary.per_user[i].throttled
    /\ \E i \in 1..Len(cfg.users) : ~get_traffic_summary.per_user[i].throttled

-----------------------------------------------------------------------------
(* Property of get_user_effective_limits, checked under SpecLimits *)

OwnOrGlobal(user, c, key) == IF OwnPositive(user, key) THEN user[key] ELSE c[key]

(* C10: the limit is the user's own traffic_limit_gb when present and
   positive, else the global one; the speed is the user's own
   throttle_speed_mbps when present and positive, else the global one;
   each field by its own value only. *)
C10_EffectiveLimits ==
    fn.op = "limits" =>
        /\ fn.out[1] = OwnOrGlobal(fn.user, fn.cfg, "traffic_limit_gb")
        /\ fn.out[2] = OwnOrGlobal(fn.user, fn.cfg, "throttle_speed_mbps")

(* A user with a limit of its own and a speed of zero, under a
   configuration whose values differ from the user's. *)
C10_Witness ==
    /\ fn.op = "limits"
    /\ OwnPositive(fn.user, "traffic_limit_gb")
    /\ "throttle_speed_mbps" \in DOMAIN fn.user
    /\ fn.user.throttle_speed_mbps = 0
    /\ fn.out[1] = fn.user.traffic_limit_gb
    /\ fn.out[1] # fn.cfg.traffic_limit_gb
    /\ fn.out[2] = fn.cfg.throttle_speed_mbps

-----------------------------------------------------------------------------
(* Properties of the process supervisor, checked under SpecProxy *)

AfterStart == obs.op \in StartOps

EnabledNow == SelectSeq(cfg.users, LAMBDA u : "enabled" \notin DOMAIN u \/ u.enabled)

(* The name a user's process is addressed by. *)
NameOfUser(u) == container_name_of(str(u.port))

(* C11: after start_proxy with every start succeeding, each enabled user
   has a running process under the name derived from the user's port, bound
   to that port and carrying that user's secret, and there is no other
   running proxy process. *)
C11_OneProcessPerEnabledUser ==
    (AfterStart /\ obs.stops_ok /\ obs.starts_ok) =>
        /\ \A i \in 1..Len(EnabledNow) :
              LET u == EnabledNow[i]
              IN  /\ NameOfUser(u) \in DOMAIN containers
                  /\ containers[NameOfUser(u)].status = "running"
                  /\ containers[NameOfUser(u)].port = u.port
                  /\ containers[NameOfUser(u)].secret = u.secret
        /\ Cardinality(RunningNames(containers)) = Len(EnabledNow)

(* C12: after start_proxy (its stop and remove calls succeeding), every
   proxy container that remains is named after the port of an enabled
   user. *)
C12_NoStaleProcess ==
    (AfterStart /\ obs.stops_ok) =>
        \A n \in DOMAIN containers :
            \E i \in 1..Len(EnabledNow) : n = NameOfUser(EnabledNow[i])

(* C13: start_proxy called right after a start_proxy, both with every call
   succeeding and the users unchanged, leaves the same processes running
   and starts none that was running. *)
C13_Idempotent ==
    (AfterStart /\ obs.repeated /\ obs.stops_ok /\ obs.starts_ok) =>
        /\ RunningNames(containers) = obs.running_before
        /\ obs.started \cap obs.running_before = {}

C15_PartialFailureReported ==
    (AfterStart /\ Len(EnabledNow) > 0) =>
        /\ obs.result.success <=> obs.started # {}
        /\ "running_count" \in DOMAIN obs.result
        /\ "total_count" \in DOMAIN obs.result
        /\ obs.result.running_count = Cardinality(obs.started)
        /\ obs.result.total_count = Len(EnabledNow)

-----------------------------------------------------------------------------
(* Property of the ledger's read-modify-write, checked under SpecRace *)

(* C16: when the sampling cycle saves the ledger, the ledger on disk is
   still the one the cycle loaded: no other writer's save is overwritten
   by data computed from a load that preceded it. *)
C16_NoLostLedgerWrite ==
    obs.op = "collect_save" => obs.loaded = obs.on_disk

-----------------------------------------------------------------------------
(* Properties of the atomic save, checked under SpecSave *)

InSave == saver.pc # "idle"

(* What a reader of the target finds is whole, and is the content from
   before the call or the content the call writes. *)
ReaderSeesOldOrNew ==
    /\ \A t \in Targets : disk.files[t].complete
    /\ InSave => disk.files[saver.target].version \in {saver.prev, saver.new}

WriteFailed == saver.pc = "returned" /\ saver.raised /\ saver.failed_at # "mkstemp"

(* C17, as claimed: a reader finds the whole previous or the whole new
   content at every point; after a failed write the temporary file is
   removed, the previous file is unchanged and the error is raised. *)
C17_AtomicSaveTmpRemoved ==
    /\ ReaderSeesOldOrNew
    /\ WriteFailed =>
          /\ disk.files[saver.target].version = saver.prev
          /\ disk.litter = saver.litter_before

(* C17, amended: a reader finds the whole previous or the whole new
   content at every point, a crash included; after a failed write the
   previous file is unchanged, the error is raised, and the temporary
   file is gone unless its removal failed too. *)
C17_AtomicSave ==
    /\ ReaderSeesOldOrNew
    /\ saver.pc = "crashed" => disk.files[saver.target].version = saver.prev
    /\ (saver.pc = "returned" /\ ~saver.raised) =>
          disk.files[saver.target] = Content(saver.new, TRUE)
    /\ (saver.pc \in {"cleanup", "returned"} /\ "failed_at" \in DOMAIN saver) =>
          disk.files[saver.target].version = saver.prev
    /\ (WriteFailed /\ saver.unlinked) => disk.litter = saver.litter_before
    /\ saver.pc = "returned" => disk.tmp = None

(* A save that failed while the text was being written, with the
   temporary file removed. *)
C17_Witness ==
    /\ WriteFailed
    /\ saver.failed_at = "write"
    /\ saver.unlinked
    /\ saver.prev > 0
    /\ disk.files[saver.target] = Content(saver.prev, TRUE)

-----------------------------------------------------------------------------
(* Property of the monitor loop, checked under SpecLoop *)

(* C18: the monitor loop never ends because a cycle failed: the thread
   is never stopped, and the start of a cycle is reached again and
   again, after a failed cycle as after any other. *)
C18_LoopNeverEnds ==
    /\ [](mon_pc # "stopped")
    /\ []<>(mon_pc = "collect")
    /\ (obs.op = "cycle_failed") ~> (mon_pc = "collect")

(* The start of a cycle, after the sleep that follows a failed cycle,
   with traffic counted before the failure. *)
C18_Witness ==
    /\ mon_pc = "collect"
    /\ obs.op = "sleep"
    /\ traffic.rx_bytes > 0

-----------------------------------------------------------------------------
(* Properties of the users' ports, checked under SpecProxy *)

(* A handler has loaded (and so migrated) the stored configuration. *)
AfterHandler == obs.op # "init"

(* C19: after any sequence of additions, deletions, toggles and port
   migrations every user holds a port and no two users hold the same one. *)
C19_UniquePorts ==
    /\ AfterHandler => \A i \in 1..Len(cfg.users) : "port" \in DOMAIN cfg.users[i]
    /\ \A i, j \in 1..Len(cfg.users) :
          (/\ i # j
           /\ "port" \in DOMAIN cfg.users[i]
           /\ "port" \in DOMAIN cfg.users[j])
             => cfg.users[i].port # cfg.users[j].port

(* A user added beside a migrated one, with the port of an earlier
   addition whose user has been deleted since. *)
C19_Witness ==
    /\ obs.op = "user_add"
    /\ obs.added
    /\ Len(cfg.users) = 2
    /\ obs.port \in obs.issued_before
    /\ cfg.users[1].port # cfg.users[2].port

(* C20, as claimed: a newly added user's port is greater than every port
   handed out by an earlier addition, deleted users included. *)
C20_PortsNeverReassigned ==
    (obs.op = "user_add" /\ obs.added) =>
        \A p \in obs.issued_before : obs.port > p

-----------------------------------------------------------------------------
(* Properties of the routing table, checked under SpecNginx *)

Built == obs.op \in {"write_stream_config", "apply_port_443_mode"}

ModeOn(c) == "port_443_mode" \in DOMAIN c /\ c.port_443_mode

(* The positions of the users that get a route: enabled, with a fronting
   domain that is not empty. *)
Routed(c) ==
    {i \in 1..Len(c.users) :
        /\ c.users[i].enabled
        /\ "fake_tls_domain" \in DOMAIN c.users[i]
        /\ c.users[i].fake_tls_domain # ""}

(* The j-th position of S, counted from 1. *)
Nth(S, j) == CHOOSE i \in S : Cardinality({x \in S : x < i}) = j - 1

IsLocal(e) == e.host = LOCAL_HOST /\ e.port = 8443

(* C21: with the mode on, the table holds one entry per enabled user with
   a fronting domain, from that domain to mtg-proxy-<port>:<port>, then
   one from the panel domain to the local address when a panel domain is
   set, then the default entry to the local address, and nothing else. *)
C21_RoutingTable ==
    (Built /\ ModeOn(obs.cfg)) =>
        LET c == obs.cfg
            t == nginx.stream_conf.entries
            k == Cardinality(Routed(c))
            panel == IF c.server_domain # "" THEN 1 ELSE 0
        IN  /\ nginx.stream_conf.exists
            /\ Len(t) = k + panel + 1
            /\ \A j \in 1..k :
                 LET u == c.users[Nth(Routed(c), j)]
                 IN  /\ t[j].name = u.fake_tls_domain
                     /\ t[j].port = u.port
                     /\ HasPrefix(t[j].host, MTG_PROXY \o <<"-">>)
                     /\ EndsInPort(t[j].host)
                     /\ int(PortOf(t[j].host)) = u.port
                     /\ Len(t[j].host) = Len(MTG_PROXY) + 1 + Len(PortOf(t[j].host))
            /\ panel = 1 => (t[k + 1].name = c.server_domain /\ IsLocal(t[k + 1]))
            /\ t[Len(t)].name = "default" /\ IsLocal(t[Len(t)])

(* The table of a.example on 2443, b.example on 2444 and the panel
   panel.example: three entries and the default one. *)
C21_Witness ==
    /\ Built /\ ModeOn(obs.cfg)
    /\ Len(nginx.stream_conf.entries) = 4
    /\ nginx.stream_conf.entries[1].name = "a.example"
    /\ nginx.stream_conf.entries[1].port = 2443
    /\ nginx.stream_conf.entries[2].name = "b.example"
    /\ nginx.stream_conf.entries[2].port = 2444
    /\ nginx.stream_conf.entries[3].name = "panel.example"

(* The table a configuration alone determines. *)
TableOf(c) ==
    LET k == Cardinality(Routed(c))
        of_users == [j \in 1..k |->
                        LET u == c.users[Nth(Routed(c), j)]
                        IN  [name |-> u.fake_tls_domain,
                             host |-> MTG_PROXY \o <<"-">> \o str(u.port),
                             port |-> u.port]]
        local(n) == [name |-> n, host |-> LOCAL_HOST, port |-> 8443]
    IN  of_users
        \o (IF c.server_domain # "" THEN <<local(c.server_domain)>> ELSE <<>>)
        \o <<local("default")>>

(* C22: after write_stream_config with the mode off there is no routing
   table file, whether one existed before or not; with the mode on the
   file exists and is the table of the configuration of that call alone. *)
C22_TableFollowsMode ==
    Built =>
        IF ModeOn(obs.cfg)
        THEN /\ nginx.stream_conf.exists
             /\ nginx.stream_conf.entries = TableOf(obs.cfg)
        ELSE /\ ~nginx.stream_conf.exists
             /\ nginx.stream_conf.entries = <<>>

(* A call with the mode off, made while a table was on disk. *)
C22_Witness ==
    /\ obs.op = "write_stream_config"
    /\ ~ModeOn(obs.cfg)
    /\ obs.existed
    /\ ~nginx.stream_conf.exists

Reloading == obs.op \in {"reload_nginx", "apply_port_443_mode"}

(* C23: a reload that fails (container missing, exit code not 0, any
   exception) is not raised by reload_nginx or apply_port_443_mode, and
   the files apply_port_443_mode wrote before it are in place. *)
C23_ReloadFailureNotRaised ==
    /\ Reloading => ~obs.raised
    /\ obs.op = "apply_port_443_mode" =>
          /\ nginx.stream_conf.exists = ModeOn(obs.cfg)
          /\ ModeOn(obs.cfg) => nginx.stream_conf.entries = TableOf(obs.cfg)
          /\ nginx.default_conf.ssl = (obs.cfg.server_domain # "" /\ obs.cert_dir)

(* apply_port_443_mode that wrote a new table while the router container
   was missing: the table is on disk, not loaded. *)
C23_Witness ==
    /\ obs.op = "apply_port_443_mode"
    /\ obs.outcome = "not_found"
    /\ ~obs.raised
    /\ ~obs.existed
    /\ nginx.stream_conf.exists
    /\ ~nginx.loaded

-----------------------------------------------------------------------------
(* Property of the control operations, checked under SpecProxy *)

(* The last step was a handler that changed the list of users. *)
UsersChanged ==
    \/ obs.op = "user_add" /\ obs.added
    \/ obs.op \in {"user_toggle", "user_delete"} /\ obs.done

Reconciles == {"restart_proxy", "start_proxy"}

RouteBuilds == {"apply_port_443_mode", "write_stream_config"}

(* Some call of the set is made after save_config. *)
CalledAfterSave(calls, set) ==
    \E i, j \in 1..Len(calls) :
        i < j /\ calls[i] = "save_config" /\ calls[j] \in set

(* C24, as claimed: a handler that changes the users saves the
   configuration and then, before it returns, calls the reconcile and the
   build of the routing table. *)
C24_SaveThenReconcileAndBuild ==
    UsersChanged =>
        /\ CalledAfterSave(obs.calls, Reconciles)
        /\ CalledAfterSave(obs.calls, RouteBuilds)

-----------------------------------------------------------------------------
(* Property of a sampling cycle with an unreadable container, checked under
   SpecLedger *)

(* The running containers the last cycle could not read. *)
Skipped == _get_containers \ DOMAIN obs.samples

SameLastSample(n) ==
    IF n \in DOMAIN obs.pre.last_per_container
    THEN /\ n \in DOMAIN traffic.last_per_container
         /\ traffic.last_per_container[n] = obs.pre.last_per_container[n]
    ELSE n \notin DOMAIN traffic.last_per_container

(* C25: in a sampling cycle over running containers, a container whose
   counters cannot be read is skipped alone: its last sample and the totals
   of its port stay as they were, every container that was read is added
   with its own delta and gets its new last sample, and the ledger is
   saved. *)
C25_UnreadableSkippedAlone ==
    (obs.op = "collect" /\ _get_containers # {}) =>
        /\ obs.saved
        /\ \A n \in Skipped :
             /\ SameLastSample(n)
             /\ EndsInPort(n) =>
                  /\ PerUserTotal(traffic, PortOf(n), "rx_bytes")
                       = PerUserTotal(obs.pre, PortOf(n), "rx_bytes")
                  /\ PerUserTotal(traffic, PortOf(n), "tx_bytes")
                       = PerUserTotal(obs.pre, PortOf(n), "tx_bytes")
        /\ \A m \in DOMAIN obs.samples :
             /\ traffic.last_per_container[m] = obs.samples[m]
             /\ EndsInPort(m) =>
                  /\ PerUserTotal(traffic, PortOf(m), "rx_bytes")
                       = PerUserTotal(obs.pre, PortOf(m), "rx_bytes") + ExpectedDelta(m, "rx")
                  /\ PerUserTotal(traffic, PortOf(m), "tx_bytes")
                       = PerUserTotal(obs.pre, PortOf(m), "tx_bytes") + ExpectedDelta(m, "tx")
        /\ traffic.rx_bytes = obs.pre.rx_bytes + ExpectedSum(DOMAIN obs.samples, "rx")
        /\ traffic.tx_bytes = obs.pre.tx_bytes + ExpectedSum(DOMAIN obs.samples, "tx")

(* A cycle that could not read the per-port container, which had been
   sampled before and has carried traffic since, and that added the
   traffic of the other container. *)
C25_Witness ==
    /\ obs.op = "collect" /\ obs.saved
    /\ \E n \in Skipped, m \in DOMAIN obs.samples :
         /\ EndsInPort(n)
         /\ n \in DOMAIN obs.pre.last_per_container
         /\ containers[n].rx + containers[n].tx
              > obs.pre.last_per_container[n].rx + obs.pre.last_per_container[n].tx
         /\ ExpectedDelta(m, "rx") + ExpectedDelta(m, "tx") > 0

-----------------------------------------------------------------------------
(* Property of an enforcement cycle with a failing tc command, checked
   under Spec *)

(* C26: in an enforcement cycle a container whose rule installation failed
   is not in the throttled set while its user is at or over the limit, so
   the next cycle installs again: a container joins the set only with its
   rule installed.  Every other running container of a user with a
   positive limit is evaluated all the same: it is in the set exactly when
   its user is at or over the limit, whatever happened to the tc commands
   of the others or to its own rule removal. *)
C26_TcFailureIsLocal ==
    AfterEnforce =>
        /\ obs.install_failed \subseteq obs.running
        /\ \A n \in throttled \ obs.before : containers[n].tc # NoRule
        /\ \A n \in DOMAIN containers :
             (Governed(n) /\ LimitOf(n) > 0) =>
                 IF n \in obs.install_failed
                 THEN n \notin throttled /\ AtOrOver(n)
                 ELSE n \in throttled <=> AtOrOver(n)
        /\ \A n \in obs.before :
             (Governed(n) /\ LimitOf(n) <= 0) => n \notin throttled

(* A cycle in which the installation failed on the container of a user at
   or over the limit, while the other container was evaluated and left
   free. *)
C26_Witness ==
    /\ AfterEnforce
    /\ \E n \in obs.install_failed, m \in obs.running :
         /\ m # n
         /\ Governed(m) /\ LimitOf(m) > 0 /\ ~AtOrOver(m) /\ m \notin throttled
         /\ Governed(n) /\ AtOrOver(n)

-----------------------------------------------------------------------------
(* Property of the summary, checked under SpecSummary *)

Summarised == fn.op = "summary"

(* The user of the configuration c on the port written as p, if any. *)
UsersOn(c, p) == {i \in 1..Len(c.users) : c.users[i].port = int(p)}

(* A field of the user on port p, or the global value when there is no
   such user or its own value is missing or not positive. *)
EffectiveOn(c, p, key) ==
    IF UsersOn(c, p) = {} THEN c[key]
    ELSE LET u == c.users[CHOOSE i \in UsersOn(c, p) : TRUE]
         IN  IF key \in DOMAIN u /\ u[key] > 0 THEN u[key] ELSE c[key]

(* C27: the global percentage (in tenths) is 0 without a positive global
   limit, 100 when the total is at or over the limit, and otherwise the
   nearest tenth of used / limit * 100, so it lies in [0, 100]; the
   per-user list has one entry per port of the ledger, in ascending port
   order, each with the user's effective limit and speed and with the
   flag telling whether mtg-proxy-<port> is in the throttled set. *)
C27_Summary ==
    Summarised =>
        LET out == fn.out
            total == fn.data.rx_bytes + fn.data.tx_bytes
            limit_bytes == fn.cfg.traffic_limit_gb * GB_BYTES
            pct == out.limit_used_pct
            pu == out.per_user
        IN  /\ pct >= 0 /\ pct <= 1000
            /\ fn.cfg.traffic_limit_gb <= 0 => pct = 0
            /\ (fn.cfg.traffic_limit_gb > 0 /\ total >= limit_bytes) => pct = 1000
            /\ (fn.cfg.traffic_limit_gb > 0 /\ total < limit_bytes) =>
                  /\ 2 * (pct * limit_bytes - total * 1000) <= limit_bytes
                  /\ 2 * (total * 1000 - pct * limit_bytes) <= limit_bytes
            /\ Len(pu) = Cardinality(DOMAIN fn.data.per_user)
            /\ \A i \in 1..(Len(pu) - 1) : pu[i].port < pu[i + 1].port
            /\ \A i \in 1..Len(pu) :
                 LET p == str(pu[i].port)
                 IN  /\ p \in DOMAIN fn.data.per_user
                     /\ pu[i].rx_bytes = fn.data.per_user[p].rx_bytes
                     /\ pu[i].tx_bytes = fn.data.per_user[p].tx_bytes
                     /\ pu[i].limit_gb = EffectiveOn(fn.cfg, p, "traffic_limit_gb")
                     /\ pu[i].throttle_speed_mbps
                          = EffectiveOn(fn.cfg, p, "throttle_speed_mbps")
                     /\ pu[i].throttled <=> (MTG_PROXY \o <<"-">> \o p) \in fn.set

(* A summary over the global limit, with three ports of which the first
   is throttled, the second carries its own limit and speed, and the
   third has no user. *)
C27_Witness ==
    /\ Summarised
    /\ fn.out.limit_used_pct = 1000
    /\ fn.data.rx_bytes + fn.data.tx_bytes > fn.cfg.traffic_limit_gb * GB_BYTES
    /\ Len(fn.out.per_user) = 3
    /\ fn.out.per_user[1].throttled
    /\ ~fn.out.per_user[2].throttled
    /\ fn.out.per_user[2].limit_gb = 2
    /\ fn.out.per_user[2].throttle_speed_mbps = 5
    /\ fn.out.per_user[3].name = "Unknown"

-----------------------------------------------------------------------------
(* Properties of the monitor cycle and of a reset, checked under Spec *)

(* The step is the enforcement half of the cycle whose sample was just
   saved. *)
SampleThenEnforce == obs.op = "collect" /\ obs.saved /\ obs'.op = "enforce"

UsageIn(data, p) == PerUserTotal(data, p, "rx_bytes") + PerUserTotal(data, p, "tx_bytes")

(* The cycle's sample took the user of container n from below its
   positive effective limit to the limit or over it. *)
BroughtOver(n) ==
    /\ n \in DOMAIN obs.samples
    /\ EndsInPort(n)
    /\ UsersOfPort(PortOf(n)) # {}
    /\ LimitOf(n) > 0
    /\ UsageIn(obs.pre, PortOf(n)) < LimitOf(n) * GB_BYTES
    /\ UsageIn(traffic, PortOf(n)) >= LimitOf(n) * GB_BYTES

(* C28: the cycle samples, saves the ledger and evaluates the limits on
   the saved ledger: a running container whose user the cycle's sample
   brought to or over its positive effective limit is in the throttled set
   when the same cycle's enforcement ends, unless the rule installation
   failed. *)
C28_ThrottledInSameCycle ==
    [][SampleThenEnforce =>
          \A n \in DOMAIN containers :
              (BroughtOver(n) /\ n \in obs'.running /\ n \notin obs'.install_failed)
                  => n \in throttled']_vars

(* The end of a cycle that throttled a container whose last sample, the
   container's current counters, makes up the whole usage of its user and
   reaches the limit. *)
C28_Witness ==
    /\ AfterEnforce /\ mon_pc = "collect"
    /\ \E n \in throttled \ obs.before :
         /\ Governed(n) /\ LimitOf(n) > 0
         /\ n \in DOMAIN traffic.last_per_container
         /\ traffic.last_per_container[n].rx = containers[n].rx
         /\ traffic.last_per_container[n].tx = containers[n].tx
         /\ Usage(PortOf(n)) = containers[n].rx + containers[n].tx
         /\ AtOrOver(n)

(* The step is the first saving sample after a reset, in a fleet no
   container of which was ever restarted. *)
FirstSampleAfterReset ==
    obs.op = "reset" /\ obs'.op = "collect" /\ obs'.saved /\ n_starts = 0

(* What the sample of container n, direction d, adds when the last sample
   before the reset is the previous value. *)
DeltaSinceLastSample(n, d) ==
    IF n \in DOMAIN obs.last_per_container_before
    THEN obs'.samples[n][d] - obs.last_per_container_before[n][d]
    ELSE obs'.samples[n][d]

(* C29: the first sampling cycle after a reset adds, for each container
   that kept running across the reset, its current counter minus the
   counter at the last sample before the reset, to the aggregate and to
   the per-user totals. *)
C29_ResetCountsOnlyLaterBytes ==
    [][FirstSampleAfterReset =>
          LET names == DOMAIN obs'.samples
          IN  /\ traffic'.rx_bytes
                   = SumOver([n \in names |-> DeltaSinceLastSample(n, "rx")], names)
              /\ traffic'.tx_bytes
                   = SumOver([n \in names |-> DeltaSinceLastSample(n, "tx")], names)
              /\ \A n \in names :
                   EndsInPort(n) =>
                       /\ PerUserTotal(traffic', PortOf(n), "rx_bytes")
                            = DeltaSinceLastSample(n, "rx")
                       /\ PerUserTotal(traffic', PortOf(n), "tx_bytes")
                            = DeltaSinceLastSample(n, "tx")]_vars

(* C30: a running proxy container that is not in the throttled set carries
   no rate-limit rule, whatever the outcome of the tc commands run by the
   enforcement cycle and by the reset. *)
C30_NoRuleOutsideThrottledSet ==
    \A n \in _get_containers : n \notin throttled => containers[n].tc = NoRule

-----------------------------------------------------------------------------
(* Property of the ledger's totals, checked under SpecLedger *)

(* The sum of the per-user totals of a ledger, one direction. *)
SumPerUser(data, key) ==
    SumOver([p \in DOMAIN data.per_user |-> data.per_user[p][key]],
            DOMAIN data.per_user)

(* The names the ledger holds a sample of. *)
Sampled == DOMAIN traffic.last_per_container

(* C31: the aggregate rx (tx) total of the saved ledger is at least the
   sum of the per-user rx (tx) totals, and equal to it when every sampled
   container name ends in "-<digits>"; a sampling cycle adds to the
   per-user totals the deltas of the names that carry a port only, so the
   traffic of a name without a port goes to the aggregate alone. *)
C31_AggregateCoversPerUser ==
    /\ traffic.rx_bytes >= SumPerUser(traffic, "rx_bytes")
    /\ traffic.tx_bytes >= SumPerUser(traffic, "tx_bytes")
    /\ (\A n \in Sampled : EndsInPort(n)) =>
          /\ traffic.rx_bytes = SumPerUser(traffic, "rx_bytes")
          /\ traffic.tx_bytes = SumPerUser(traffic, "tx_bytes")
    /\ AfterCollect =>
          LET ported == {n \in DOMAIN obs.samples : EndsInPort(n)}
          IN  /\ SumPerUser(traffic, "rx_bytes")
                   = SumPerUser(obs.pre, "rx_bytes") + ExpectedSum(ported, "rx")
              /\ SumPerUser(traffic, "tx_bytes")
                   = SumPerUser(obs.pre, "tx_bytes") + ExpectedSum(ported, "tx")

(* A ledger holding traffic of the container without a port suffix next
   to traffic of a user's container: the aggregate exceeds the per-user
   sum, which is not zero. *)
C31_Witness ==
    /\ \E n \in Sampled : ~EndsInPort(n) /\ traffic.last_per_container[n].rx > 0
    /\ SumPerUser(traffic, "rx_bytes") > 0
    /\ traffic.rx_bytes > SumPerUser(traffic, "rx_bytes")

-----------------------------------------------------------------------------
(* app/services/traffic.py: start_traffic_monitor, called by several
   threads; each numbered statement is one step, as nothing in the
   function holds a lock. *)

MaxStartCalls == 4

starter_vars == <<cfg, containers, traffic, throttled, mon_pc, n_traffic, n_starts,
                  clock, fn, issued, mon_data, disk, saver, nginx, login>>

(* Thread.is_alive(): the monitor loop never returns, so a thread is alive
   from its start on. *)
is_alive(th) == th \in starter.alive

(* Lines 302-303: the guard. *)
start_guard ==
    /\ \E t \in Callers :
        /\ starter.pc[t] = "idle"
        /\ starter.calls < MaxStartCalls
        /\ LET th == starter._monitor_thread
               running == th # NoThread /\ is_alive(th)
           IN  /\ starter' = [starter EXCEPT !.calls = @ + 1,
                                             !.pc[t] = IF running THEN "idle"
                                                       ELSE "create"]
               /\ obs' = [op |-> "start_guard", caller |-> t, returned |-> running]
    /\ UNCHANGED starter_vars

(* Lines 304-309: a new Thread object bound to the global name. *)
start_create ==
    /\ \E t \in Callers :
        /\ starter.pc[t] = "create"
        /\ starter' = [starter EXCEPT !.created = @ + 1,
                                      !._monitor_thread = starter.created + 1,
                                      !.pc[t] = "start"]
        /\ obs' = [op |-> "start_create", caller |-> t]
    /\ UNCHANGED starter_vars

(* Line 310: _monitor_thread.start() on the thread the global names now;
   starting a thread a second time raises RuntimeError. *)
start_thread ==
    /\ \E t \in Callers :
        /\ starter.pc[t] = "start"
        /\ LET th == starter._monitor_thread
           IN  /\ starter' = [starter EXCEPT !.alive = @ \cup {th},
                                             !.pc[t] = "idle"]
               /\ obs' = [op |-> "start_thread", caller |-> t,
                          raised |-> is_alive(th)]
    /\ UNCHANGED starter_vars

NextStarter ==
    \/ start_guard
    \/ start_create
    \/ start_thread

SpecStarter == Init /\ [][NextStarter]_vars

(* C32: whatever calls of start_traffic_monitor were made, by one thread
   or by several at once, at most one monitor loop thread is alive. *)
C32_AtMostOneMonitor == Cardinality(starter.alive) <= 1

-----------------------------------------------------------------------------
(* app/app.py: the login rate limiter. Both functions run under
   _login_lock, so each call is one step. *)

LOGIN_MAX_ATTEMPTS == 5

LOGIN_WINDOW_SECONDS == 300

(* time.time() advances by this many seconds at a time. *)
TickSeconds == 150

MaxTicks == 3

MaxLoginCalls == 7

login_vars == <<cfg, containers, traffic, throttled, mon_pc, n_traffic, n_starts,
                clock, fn, issued, mon_data, disk, saver, nginx, starter>>

(* Variant: the call after the last allowed one is let through as well. *)
limit_reached_late(count) == count > LOGIN_MAX_ATTEMPTS

(* Line 40. *)
limit_reached(count) == count >= LOGIN_MAX_ATTEMPTS

(* Lines 34-46: the answer and the table after the call. *)
check_rate_limit(attempts, ip, now) ==
    IF ip \in DOMAIN attempts
    THEN LET count == attempts[ip].count
             first_time == attempts[ip].first_time
         IN  IF now - first_time > LOGIN_WINDOW_SECONDS
             THEN [ret |-> TRUE,
                   attempts |-> Put(attempts, ip, [count |-> 1, first_time |-> now])]
             ELSE IF limit_reached(count)
             THEN [ret |-> FALSE, attempts |-> attempts]
             ELSE [ret |-> TRUE,
                   attempts |-> Put(attempts, ip,
                                    [count |-> count + 1, first_time |-> first_time])]
    ELSE [ret |-> TRUE,
          attempts |-> Put(attempts, ip, [count |-> 1, first_time |-> now])]

_check_rate_limit ==
    /\ login.calls < MaxLoginCalls
    /\ \E ip \in ClientIPs :
         LET r == check_rate_limit(login._login_attempts, ip, login.now)
         IN  /\ login' = [login EXCEPT
                            !._login_attempts = r.attempts,
                            !.calls = @ + 1,
                            !.granted[ip] = IF r.ret THEN Append(@, login.now) ELSE @]
             /\ obs' = [op |-> "_check_rate_limit", ip |-> ip, ret |-> r.ret,
                        now |-> login.now, before |-> login._login_attempts]
    /\ UNCHANGED login_vars

(* Lines 49-51: _login_attempts.pop(ip, None). *)
_reset_rate_limit ==
    /\ login.calls < MaxLoginCalls
    /\ \E ip \in ClientIPs :
         /\ login' = [login EXCEPT
                        !._login_attempts =
                            [i \in DOMAIN @ \ {ip} |-> @[i]],
                        !.calls = @ + 1,
                        !.granted[ip] = <<>>]
         /\ obs' = [op |-> "_reset_rate_limit", ip |-> ip,
                    before |-> login._login_attempts]
    /\ UNCHANGED login_vars

(* time.time() between two calls. *)
Tick ==
    /\ login.now < MaxTicks * TickSeconds
    /\ login' = [login EXCEPT !.now = @ + TickSeconds]
    /\ obs' = [op |-> "env"]
    /\ UNCHANGED login_vars

NextLogin ==
    \/ _check_rate_limit
    \/ _reset_rate_limit
    \/ Tick

SpecLogin == Init /\ [][NextLogin]_vars

-----------------------------------------------------------------------------
(* Property of the login rate limiter, checked under SpecLogin *)

(* The calls answered True for ip, since its last reset, at a time inside
   the window that starts at first. *)
GrantedInWindow(ip, first) ==
    {i \in 1..Len(login.granted[ip]) :
        /\ login.granted[ip][i] >= first
        /\ login.granted[ip][i] <= first + LOGIN_WINDOW_SECONDS}

AfterLoginCall == obs.op \in {"_check_rate_limit", "_reset_rate_limit"}

(* C33: for each client IP at most LOGIN_MAX_ATTEMPTS calls are answered
   True inside the window of LOGIN_WINDOW_SECONDS that starts at its first
   counted attempt, counting from its last reset; a call made after the
   window has elapsed is answered True and starts a new window with count
   1; a call for one IP leaves the entry of every other IP as it was. *)
C33_RateLimit ==
    /\ \A ip \in DOMAIN login._login_attempts :
         LET e == login._login_attempts[ip]
         IN  /\ Cardinality(GrantedInWindow(ip, e.first_time)) <= LOGIN_MAX_ATTEMPTS
             /\ Cardinality(GrantedInWindow(ip, e.first_time)) = e.count
    /\ (/\ obs.op = "_check_rate_limit"
        /\ obs.ip \in DOMAIN obs.before
        /\ obs.now - obs.before[obs.ip].first_time > LOGIN_WINDOW_SECONDS) =>
          /\ obs.ret
          /\ login._login_attempts[obs.ip] = [count |-> 1, first_time |-> obs.now]
    /\ AfterLoginCall =>
          \A ip \in ClientIPs \ {obs.ip} :
              /\ ip \in DOMAIN login._login_attempts <=> ip \in DOMAIN obs.before
              /\ ip \in DOMAIN obs.before =>
                    login._login_attempts[ip] = obs.before[ip]

(* The sixth call of one IP inside its window is refused while another IP
   is in the middle of its own window. *)
C33_Witness ==
    /\ obs.op = "_check_rate_limit" /\ ~obs.ret
    /\ Cardinality(GrantedInWindow(obs.ip,
                                   login._login_attempts[obs.ip].first_time))
         = LOGIN_MAX_ATTEMPTS
    /\ \E ip \in DOMAIN login._login_attempts :
         ip # obs.ip /\ login._login_attempts[ip].count < LOGIN_MAX_ATTEMPTS

====
